---- MODULE Spec2Model ----
(***************************************************************************)
(* A model of axiom-extract (mattyv/axiom, tools/axiom-extract).           *)
(*                                                                         *)
(* Three specifications share the variables below:                         *)
(*   SpecExtract  the extractors as functions of one declaration           *)
(*                (ConstraintExtractor, HazardDetector, EffectDetector,    *)
(*                FunctionExtractor, the hazard/effect/                    *)
(*                class/enum/... to Axiom conversions of main.cpp, the     *)
(*                macro and the test-assertion axioms);                    *)
(*   SpecGuard    GuardAnalyzer: the predecessor walk over a CFG;          *)
(*   Spec         main(): batching, the worker threads running             *)
(*                processBatch, the join/merge loop and the emission.      *)
(*                                                                         *)
(* Strings are TLA+ strings; a confidence is an integer number of          *)
(* hundredths (100 is 1.0, 95 is 0.95).                                    *)
(***************************************************************************)
EXTENDS Integers, Sequences, FiniteSets, TLC

VARIABLES
    \* ---- SpecExtract: one extractor applied to one declaration
    exKind,      \* which extractor the input is for ("none": not this spec)
    exInput,     \* the declaration (FunctionInfo, body, MacroDefinition, ...)
    exPc,        \* "input" before the extractor ran, "done" after
    axioms,      \* std::vector<Axiom> the extractor returned
    hazards,     \* std::vector<Hazard> HazardDetector returned
    effects,     \* std::vector<Effect> EffectDetector returned
    functions_,  \* std::vector<FunctionInfo> FunctionExtractor returned
    ignoreFilter, \* the IgnoreFilter: patterns_ and testPatterns_
    ignored,     \* what shouldIgnorePath returned
    calls_,      \* std::vector<FunctionCall> CallGraphExtractor returned
    \* ---- SpecGuard: one call of GuardAnalyzer
    gMode,       \* "isGuarded" or "findGuard" ("none": not this spec)
    gCfg,        \* the clang::CFG* argument
    gHazard,     \* the Hazard argument
    gPc,         \* "input", "walk" (inside the predecessor walk), "done"
    gStack,      \* the frames of checkPredecessorsImpl / findGuardImpl
    gVisited,    \* std::unordered_set<unsigned> visited
    gEntered,    \* the blocks that passed the visited test, in order
    gCall,       \* the latest call of GuardChecker::isGuardFor and its answer
    gResult,     \* what the call returned
    gOther,      \* what the other function returned for the same arguments,
                 \* once it has been called
    \* ---- Spec: main() and the threads running processBatch
    sourceFiles, \* std::vector<std::string> sourceFiles
    numJobs,     \* unsigned numJobs
    ExtractCallGraph, \* the --call-graph option
    mainPc,      \* where main() is
    batches,     \* std::vector<std::vector<std::string>> batches
    threads,     \* the calls of processBatch: futures, in launch order
    loopIdx,     \* the position of main()'s launch or collect loop
    results,     \* std::vector<ExtractionResult> results
    exitCode,    \* int exitCode
    globalCallGraph, \* static std::vector<FunctionCall> globalCallGraph
    output       \* the JSON document main() writes

exVars == <<exKind, exInput, exPc, axioms, hazards, effects, functions_,
            ignoreFilter, ignored, calls_>>

guardVars == <<gMode, gCfg, gHazard, gPc, gStack, gVisited, gEntered, gCall, gResult,
               gOther>>

mainVars == <<sourceFiles, numJobs, ExtractCallGraph, mainPc, batches, threads,
              loopIdx, results, exitCode, globalCallGraph, output>>

vars == <<exVars, guardVars, mainVars>>

\* the variables of a specification that is not the one running
ExtractIdle ==
    /\ exKind = "none" /\ exInput = "none" /\ exPc = "none"
    /\ axioms = <<>> /\ hazards = <<>> /\ effects = <<>> /\ functions_ = <<>>
    /\ ignoreFilter = "none" /\ ignored = "none" /\ calls_ = <<>>

GuardIdle ==
    /\ gMode = "none" /\ gCfg = "none" /\ gHazard = "none" /\ gPc = "none"
    /\ gStack = <<>> /\ gVisited = {} /\ gEntered = <<>>
    /\ gCall = "none" /\ gResult = "none" /\ gOther = <<>>

MainIdle ==
    /\ sourceFiles = <<>> /\ numJobs = 0 /\ ExtractCallGraph = FALSE
    /\ mainPc = "none" /\ batches = <<>> /\ threads = <<>>
    /\ loopIdx = 0 /\ results = <<>> /\ exitCode = 0
    /\ globalCallGraph = <<>> /\ output = "none"

(***************************************************************************)
(* std::string operations                                                  *)
(***************************************************************************)

\* s[i] as a one-character string ("" out of range)
CharAt(s, i) == IF i >= 1 /\ i <= Len(s) THEN SubSeq(s, i, i) ELSE ""

\* s.substr(pos) with a 1-based pos
SubstrFrom(s, pos) == SubSeq(s, pos, Len(s))

\* s.substr clipped to the string: the characters i..j that exist
Substr(s, i, j) ==
    LET lo == IF i < 1 THEN 1 ELSE i
        hi == IF j > Len(s) THEN Len(s) ELSE j
    IN  IF lo > hi THEN "" ELSE SubSeq(s, lo, hi)

\* s.find(sub): the 1-based position of the first occurrence, 0 for npos
Find(s, sub) ==
    LET hits == { i \in 1..(Len(s) - Len(sub) + 1) : SubSeq(s, i, i + Len(sub) - 1) = sub }
    IN  IF hits = {} THEN 0 ELSE CHOOSE i \in hits : \A j \in hits : i <= j

Contains(s, sub) == Find(s, sub) # 0

StartsWith(s, pre) == Len(s) >= Len(pre) /\ SubSeq(s, 1, Len(pre)) = pre

EndsWith(s, suf) == Len(s) >= Len(suf) /\ SubSeq(s, Len(s) - Len(suf) + 1, Len(s)) = suf

\* regex \s and the " \t" of find_first_not_of: the inputs hold no tab or newline
IsSpace(c) == c = " "

\* std::to_string of a non-negative integer
to_string(n) == ToString(n)

\* the trim of ConstraintExtractor.cpp: 37-41 and 61-65; a string of blanks
\* only is left as it is (both positions are npos)
Trim(s) ==
    LET nonblank == { i \in 1..Len(s) : ~IsSpace(CharAt(s, i)) }
    IN  IF nonblank = {} THEN s
        ELSE SubSeq(s, CHOOSE i \in nonblank : \A j \in nonblank : i <= j,
                       CHOOSE i \in nonblank : \A j \in nonblank : i >= j)

(***************************************************************************)
(* Axiom.h                                                                 *)
(***************************************************************************)

AxiomType == {"PRECONDITION", "POSTCONDITION", "INVARIANT", "EXCEPTION",
              "EFFECT", "CONSTRAINT", "ANTI_PATTERN", "COMPLEXITY"}

SourceType == {"EXPLICIT", "PATTERN", "PROPAGATED", "LLM"}

HazardType == {"DIVISION", "POINTER_DEREF", "ARRAY_ACCESS", "CAST"}

\* struct Axiom; the hazard fields are std::optional ("none" when not set)
MakeAxiom(id, content, formal_spec, function, axiom_type, confidence, source_type) ==
    [ id |-> id, content |-> content, formal_spec |-> formal_spec,
      function |-> function, axiom_type |-> axiom_type,
      confidence |-> confidence, source_type |-> source_type,
      hazard_type |-> "none", has_guard |-> "none" ]

(***************************************************************************)
(* ConstraintExtractor.cpp                                                 *)
(***************************************************************************)

Qualifiers == { "constexpr ", "consteval ", "inline ", "static ", "virtual ",
                "explicit ", "friend ", "mutable ", "volatile ", "const " }

\* the while (changed) loop: strip leading qualifiers until none is a prefix
RECURSIVE StripQualifiers(_)
StripQualifiers(t) ==
    IF \E q \in Qualifiers : StartsWith(t, q)
    THEN LET q == CHOOSE q \in Qualifiers : StartsWith(t, q)
         IN  StripQualifiers(SubstrFrom(t, Len(q) + 1))
    ELSE t

\* The end of the blank run that starts at i+1, and of the non-blank run after it
SpaceRunEnd(s, i) ==
    LET stops == { j \in (i + 1)..Len(s) : ~IsSpace(CharAt(s, j)) }
    IN  IF stops = {} THEN Len(s) ELSE (CHOOSE j \in stops : \A k \in stops : j <= k) - 1

WordEnd(s, j) ==
    LET stops == { k \in (j + 1)..Len(s) : IsSpace(CharAt(s, k)) }
    IN  IF stops = {} THEN Len(s) ELSE (CHOOSE k \in stops : \A m \in stops : k <= m) - 1

\* second alternative ^(.+?)\s+\S+\( with the group ending at i
MatchPlain(s, i) ==
    /\ i >= 1 /\ i < Len(s) /\ IsSpace(CharAt(s, i + 1))
    /\ LET j == SpaceRunEnd(s, i)
           k == WordEnd(s, j)
       IN  \E q \in (j + 2)..k : CharAt(s, q) = "("

\* first alternative ^(.+?)\s+\S+::\S+\( with the group ending at i
MatchQualified(s, i) ==
    /\ i >= 1 /\ i < Len(s) /\ IsSpace(CharAt(s, i + 1))
    /\ LET j == SpaceRunEnd(s, i)
           k == WordEnd(s, j)
       IN  \E p \in (j + 2)..(k - 1) :
               /\ SubSeq(s, p, p + 1) = "::"
               /\ \E q \in (p + 3)..k : CharAt(s, q) = "("

\* std::regex_search with returnTypeRegex: the text of the group that matched
\* (lazy: the shortest; the first alternative is preferred), "" and matched =
\* FALSE when neither alternative matches
RegexReturnType(s) ==
    LET m1 == { i \in 1..Len(s) : MatchQualified(s, i) }
        m2 == { i \in 1..Len(s) : MatchPlain(s, i) }
        least(S) == CHOOSE i \in S : \A j \in S : i <= j
    IN  IF m1 # {} THEN [matched |-> TRUE, text |-> SubSeq(s, 1, least(m1))]
        ELSE IF m2 # {} THEN [matched |-> TRUE, text |-> SubSeq(s, 1, least(m2))]
        ELSE [matched |-> FALSE, text |-> ""]

NoReturnTypeInfo ==
    [ is_void |-> FALSE, is_bool |-> FALSE, is_optional |-> FALSE,
      is_expected |-> FALSE, is_pointer |-> FALSE, is_reference |-> FALSE,
      type_name |-> "" ]

analyzeReturnType(signature) ==
    LET m == RegexReturnType(signature)
    IN  IF ~m.matched THEN NoReturnTypeInfo
        ELSE LET t == Trim(StripQualifiers(Trim(m.text)))
             IN  [ is_void |-> (t = "void"),
                   is_bool |-> (t = "bool" \/ t = "_Bool"),
                   is_optional |-> Contains(t, "optional"),
                   is_expected |-> Contains(t, "expected"),
                   is_pointer |-> (t # "" /\ CharAt(t, Len(t)) = "*"),
                   is_reference |-> (t # "" /\ CharAt(t, Len(t)) = "&"),
                   type_name |-> t ]

\* an explicit-attribute axiom given the confidence of a heuristic
ExplicitAxiomHeuristic(func, suffix, content, formal_spec, axiom_type) ==
    MakeAxiom(func.qualified_name \o suffix, content, formal_spec,
              func.qualified_name, axiom_type, 95, "EXPLICIT")

\* one explicit-attribute axiom (confidence 1.0, EXPLICIT)
ExplicitAxiom(func, suffix, content, formal_spec, axiom_type) ==
    MakeAxiom(func.qualified_name \o suffix, content, formal_spec,
              func.qualified_name, axiom_type, 100, "EXPLICIT")

\* one return-type axiom (PATTERN)
PatternAxiom(func, suffix, content, formal_spec, axiom_type, confidence) ==
    MakeAxiom(func.qualified_name \o suffix, content, formal_spec,
              func.qualified_name, axiom_type, confidence, "PATTERN")

TemplateAxiom(func) ==
    IF func.is_variadic_template
    THEN PatternAxiom(func, ".complexity.template_instantiation",
             func.name \o " is a variadic template; each unique parameter pack expansion causes a separate instantiation, potentially increasing code size",
             "instantiation_count = O(unique_pack_expansions)", "COMPLEXITY", 90)
    ELSE IF func.template_param_count > 0
    THEN PatternAxiom(func, ".complexity.template_instantiation",
             func.name \o " is a template function; each unique combination of template arguments causes a separate instantiation",
             "instantiation_count = O(unique_template_args^"
                 \o to_string(func.template_param_count) \o ")", "COMPLEXITY", 95)
    ELSE PatternAxiom(func, ".complexity.template_instantiation",
             func.name \o " is a template function that may generate multiple instantiations",
             "instantiation_count >= 1", "COMPLEXITY", 90)

\* push_back when the condition holds
PushIf(cond, seq, ax) == IF cond THEN Append(seq, ax) ELSE seq

\* the constexpr test without its consteval exclusion
ConstexprGuardUnconditional(func) == func.is_constexpr

ConstexprGuard(func) == func.is_constexpr /\ ~func.is_consteval

\* the explicit attributes: one axiom for each that is set
ExplicitConstraints(func) ==
    LET a1 == PushIf(func.is_noexcept, <<>>,
                ExplicitAxiom(func, ".noexcept",
                    func.name \o " is guaranteed not to throw exceptions",
                    "noexcept == true", "EXCEPTION"))
        a2 == PushIf(func.is_nodiscard, a1,
                ExplicitAxiom(func, ".nodiscard",
                    "Return value of " \o func.name \o " must not be discarded",
                    "[[nodiscard]]", "POSTCONDITION"))
        a3 == PushIf(func.is_const, a2,
                ExplicitAxiom(func, ".const",
                    func.name \o " does not modify object state",
                    "this->state == old(this->state)", "EFFECT"))
        a4 == PushIf(func.is_deleted, a3,
                ExplicitAxiom(func, ".deleted",
                    func.name \o " is explicitly deleted and cannot be called",
                    "callable == false", "CONSTRAINT"))
        a5 == PushIf(ConstexprGuard(func), a4,
                ExplicitAxiom(func, ".constexpr",
                    func.name \o " can be evaluated at compile time",
                    "constexpr == true", "CONSTRAINT"))
        a6 == PushIf(func.is_consteval, a5,
                ExplicitAxiom(func, ".consteval",
                    func.name \o " must be evaluated at compile time",
                    "consteval == true", "CONSTRAINT"))
        a7 == PushIf(func.is_deprecated, a6,
                ExplicitAxiom(func, ".deprecated",
                    func.name \o " is deprecated and should not be used",
                    "[[deprecated]]", "ANTI_PATTERN"))
    IN  PushIf(func.requires_clause # "", a7,
                ExplicitAxiom(func, ".requires",
                    "Template parameters must satisfy: " \o func.requires_clause,
                    func.requires_clause, "CONSTRAINT"))

\* extractConstraints without its return-type and template heuristics
extractConstraintsExplicitOnly(func) == ExplicitConstraints(func)

extractConstraints(func) ==
    LET returnInfo == analyzeReturnType(func.signature)
        a8 == ExplicitConstraints(func)
        a9 == PushIf(returnInfo.is_optional, a8,
                PatternAxiom(func, ".postcond.optional_value",
                    func.name \o " returns std::optional which may or may not contain a value; caller must check has_value() before accessing",
                    "result.has_value() || result == std::nullopt", "POSTCONDITION", 95))
        a10 == PushIf(returnInfo.is_bool, a9,
                PatternAxiom(func, ".postcond.bool_result",
                    func.name \o " returns a boolean indicating success/validity; true typically indicates success or valid state",
                    "result in {true, false}", "POSTCONDITION", 85))
        a11 == PushIf(returnInfo.is_expected, a10,
                PatternAxiom(func, ".postcond.expected_value",
                    func.name \o " returns std::expected which contains either a value or an error; caller must check has_value() before accessing value",
                    "result.has_value() xor result.error()", "POSTCONDITION", 95))
        a12 == PushIf(returnInfo.is_pointer /\ ~returnInfo.is_void, a11,
                PatternAxiom(func, ".postcond.pointer_nullable",
                    func.name \o " returns a pointer that may be null; caller should check for nullptr before dereferencing",
                    "result == nullptr || is_valid_pointer(result)", "POSTCONDITION", 80))
    IN  PushIf(func.is_template, a12, TemplateAxiom(func))

(***************************************************************************)
(* Expressions of the AST, as far as the detectors look at them.  src is   *)
(* the expression as written and lastTok the offset in it of the first     *)
(* character of its last token: a clang SourceRange ends at the START of   *)
(* the last token.                                                         *)
(***************************************************************************)

Lit(kind, value, src) ==
    [ kind |-> kind, value |-> value, src |-> src, lastTok |-> 1, sub |-> <<>> ]

DeclRef(name) ==
    [ kind |-> "DeclRefExpr", value |-> 0, src |-> name, lastTok |-> 1, sub |-> <<>> ]

ThisExpr ==
    [ kind |-> "CXXThisExpr", value |-> 0, src |-> "this", lastTok |-> 1, sub |-> <<>> ]

Paren(e) ==
    [ kind |-> "ParenExpr", value |-> 0, src |-> "(" \o e.src \o ")",
      lastTok |-> Len(e.src) + 2, sub |-> <<e>> ]

ImplicitCast(e) ==
    [ kind |-> "ImplicitCastExpr", value |-> 0, src |-> e.src,
      lastTok |-> e.lastTok, sub |-> <<e>> ]

\* -e: a UnaryOperator, not a literal
Minus(e) ==
    [ kind |-> "UnaryOperator", value |-> 0, src |-> "-" \o e.src,
      lastTok |-> e.lastTok + 1, sub |-> <<e>> ]

\* a null Expr*
NoExpr == [ kind |-> "null" ]

BinExpr(opcode, sym, l, r) ==
    [ kind |-> "BinaryOperator", opcode |-> opcode, value |-> 0,
      src |-> l.src \o " " \o sym \o " " \o r.src,
      lastTok |-> Len(l.src) + Len(sym) + 2 + r.lastTok, sub |-> <<l, r>> ]

LNot(e) ==
    [ kind |-> "UnaryOperator", opcode |-> "UO_LNot", value |-> 0,
      src |-> "!" \o e.src, lastTok |-> 1 + e.lastTok, sub |-> <<e>> ]

CastTo(castKind, e) ==
    [ kind |-> "ImplicitCastExpr", castKind |-> castKind, value |-> 0,
      src |-> e.src, lastTok |-> e.lastTok, sub |-> <<e>> ]

\* Expr::IgnoreParenImpCasts
RECURSIVE IgnoreParenImpCasts(_)
IgnoreParenImpCasts(e) ==
    IF e.kind \in {"ParenExpr", "ImplicitCastExpr"}
    THEN IgnoreParenImpCasts(e.sub[1])
    ELSE e

Min(a, b) == IF a <= b THEN a ELSE b

(***************************************************************************)
(* HazardDetector.cpp                                                      *)
(***************************************************************************)

\* HazardVisitor::getExprText: from the first character of the range to the
\* first character of its last token, at most 100 characters
getExprText(e) == SubSeq(e.src, 1, Min(e.lastTok, 100))

MakeHazard(type, expression, operand, line) ==
    [ type |-> type, expression |-> expression, operand |-> operand,
      line |-> line, has_guard |-> FALSE, guard_expression |-> "" ]

\* the divisor is a literal the visitor takes for non-zero
IsSkippedDivisor(rhs) ==
    LET lit == IgnoreParenImpCasts(rhs)
    IN  lit.kind = "IntegerLiteral" /\ lit.value # 0

\* The Visit* methods: the hazards one node of the body adds
VisitBinaryOperator(n) ==
    IF n.opcode \in {"BO_Div", "BO_Rem"}
    THEN IF IsSkippedDivisor(n.rhs) THEN <<>>
         ELSE << MakeHazard("DIVISION", getExprText(n), getExprText(n.rhs), n.line) >>
    ELSE <<>>

VisitUnaryOperator(n) ==
    IF n.opcode = "UO_Deref"
    THEN IF IgnoreParenImpCasts(n.rhs).kind = "CXXThisExpr" THEN <<>>
         ELSE << MakeHazard("POINTER_DEREF", getExprText(n),
                            getExprText(IgnoreParenImpCasts(n.rhs)), n.line) >>
    ELSE <<>>

VisitMemberExpr(n) ==
    IF n.opcode = "arrow"
    THEN IF IgnoreParenImpCasts(n.rhs).kind = "CXXThisExpr" THEN <<>>
         ELSE << MakeHazard("POINTER_DEREF", getExprText(n),
                            getExprText(IgnoreParenImpCasts(n.rhs)), n.line) >>
    ELSE <<>>

\* a visitor that applied the literal analysis of the divisions to the index
VisitArraySubscriptExprLiteral(n) ==
    IF IsSkippedDivisor(n.rhs) THEN <<>>
    ELSE << MakeHazard("ARRAY_ACCESS", getExprText(n), getExprText(n.rhs), n.line) >>

VisitArraySubscriptExpr(n) ==
    << MakeHazard("ARRAY_ACCESS", getExprText(n), getExprText(n.rhs), n.line) >>

VisitCXXReinterpretCastExpr(n) ==
    << MakeHazard("CAST", getExprText(n), getExprText(n.rhs), n.line) >>

VisitNode(n) ==
    CASE n.node = "BinaryOperator" -> VisitBinaryOperator(n)
      [] n.node = "UnaryOperator" -> VisitUnaryOperator(n)
      [] n.node = "MemberExpr" -> VisitMemberExpr(n)
      [] n.node = "ArraySubscriptExpr" -> VisitArraySubscriptExpr(n)
      [] n.node = "CXXReinterpretCastExpr" -> VisitCXXReinterpretCastExpr(n)
      [] OTHER -> <<>>

\* TraverseStmt over the nodes of the body, in order
RECURSIVE TraverseStmt(_)
TraverseStmt(nodes) ==
    IF nodes = <<>> THEN <<>>
    ELSE VisitNode(Head(nodes)) \o TraverseStmt(Tail(nodes))

\* HazardDetectorImpl::detectHazards; a function without body has hasBody FALSE
detectHazards(func) ==
    IF ~func.hasBody THEN <<>> ELSE TraverseStmt(func.body)

(***************************************************************************)
(* EffectDetector.cpp.  A statement of the body is a record                *)
(*   [stmt, opcode, lhs, name, qualified_name, line, parents, loop]        *)
(* where lhs is the operand the visitor inspects after stripping           *)
(* parentheses and implicit casts: "DeclRefExpr", "MemberExpr" (of this)   *)
(* or "Deref" (of a DeclRefExpr), parents the AST ancestors of a call,     *)
(* nearest first, and loop the position in the body of the loop statement  *)
(* whose body encloses the statement (0: none).  The body is listed in the *)
(* order the traversal visits it: a loop before the statements of its body.*)
(***************************************************************************)

CONTAINER_MODIFY_METHODS ==
    { "push_back", "push_front", "pop_back", "pop_front",
      "insert", "emplace", "emplace_back", "emplace_front",
      "erase", "clear", "resize", "reserve",
      "assign", "swap", "append", "replace" }

MakeEffect(kind, target, line, confidence) ==
    [ kind |-> kind, target |-> target, line |-> line, confidence |-> confidence,
      call_count |-> 0, is_cached |-> FALSE, occurs_at_start |-> FALSE ]

AssignmentOps == { "BO_Assign", "BO_AddAssign", "BO_DivAssign" }

IncDecOps == { "UO_PreInc", "UO_PostInc", "UO_PreDec", "UO_PostDec" }

\* EffectVisitor::VisitBinaryOperator
EffectVisitBinaryOperator(func, st) ==
    IF st.opcode \notin AssignmentOps THEN <<>>
    ELSE IF st.lhs = "DeclRefExpr" /\ st.name \in func.modifiableParams
         THEN << MakeEffect("PARAM_MODIFY", st.name, st.line, 95) >>
    ELSE IF st.lhs = "MemberExpr" /\ ~func.isConstMethod
         THEN << MakeEffect("MEMBER_WRITE", st.name, st.line, 95) >>
    ELSE IF st.lhs = "Deref" /\ st.name \in func.pointerParams
         THEN << MakeEffect("PARAM_MODIFY", "*" \o st.name, st.line, 95) >>
    ELSE <<>>

\* EffectVisitor::VisitUnaryOperator
EffectVisitUnaryOperator(func, st) ==
    IF st.opcode \notin IncDecOps THEN <<>>
    ELSE IF st.lhs = "DeclRefExpr" /\ st.name \in func.modifiableParams
         THEN << MakeEffect("PARAM_MODIFY", st.name, st.line, 95) >>
    ELSE IF st.lhs = "MemberExpr" /\ ~func.isConstMethod
         THEN << MakeEffect("MEMBER_WRITE", st.name, st.line, 95) >>
    ELSE <<>>

VisitCXXNewExpr(st) == << MakeEffect("MEMORY_ALLOC", st.name, st.line, 95) >>

VisitCXXDeleteExpr(st) == << MakeEffect("MEMORY_FREE", st.name, st.line, 95) >>

VisitCXXMemberCallExpr(st) ==
    IF st.name \in CONTAINER_MODIFY_METHODS
    THEN << MakeEffect("CONTAINER_MODIFY", st.lhs, st.line, 90) >>
    ELSE <<>>

VisitCallExpr(st) ==
    (IF st.name \in {"malloc", "calloc", "realloc"}
     THEN << MakeEffect("MEMORY_ALLOC", st.name, st.line, 95) >> ELSE <<>>)
    \o
    (IF st.name = "free"
     THEN << MakeEffect("MEMORY_FREE", st.lhs, st.line, 95) >> ELSE <<>>)

EffectVisitNode(func, st) ==
    CASE st.stmt = "BinaryOperator" -> EffectVisitBinaryOperator(func, st)
      [] st.stmt = "UnaryOperator" -> EffectVisitUnaryOperator(func, st)
      [] st.stmt = "CXXNewExpr" -> VisitCXXNewExpr(st)
      [] st.stmt = "CXXDeleteExpr" -> VisitCXXDeleteExpr(st)
      [] st.stmt = "CXXMemberCallExpr" -> VisitCXXMemberCallExpr(st)
      [] st.stmt = "CallExpr" -> VisitCallExpr(st)
      [] OTHER -> <<>>

RECURSIVE EffectTraverseStmt(_, _)
EffectTraverseStmt(func, stmts) ==
    IF stmts = <<>> THEN <<>>
    ELSE EffectVisitNode(func, Head(stmts)) \o EffectTraverseStmt(func, Tail(stmts))

\* the loop statements whose first line the visitor records
LoopStmts == { "ForStmt", "WhileStmt", "CXXForRangeStmt" }

loop_start_lines(stmts) ==
    { stmts[i].line : i \in { j \in 1..Len(stmts) : stmts[j].stmt \in LoopStmts } }

\* an ancestor of a call in the AST; side tells which operand of a
\* BinaryOperator the call is under
ParentNode(kind, opcode, side) == [ kind |-> kind, opcode |-> opcode, side |-> side ]

\* BinaryOperator::isAssignmentOp
isAssignmentOp(opcode) == opcode \in AssignmentOps

\* EffectVisitor::isCallResultCached: only the nearest parent is looked at
isCallResultCached(call) ==
    IF call.parents = <<>> THEN FALSE
    ELSE LET parent == call.parents[1]
         IN  IF parent.kind = "VarDecl" THEN TRUE
             ELSE IF parent.kind = "BinaryOperator" /\ isAssignmentOp(parent.opcode)
                  THEN TRUE
             ELSE FALSE

\* call_frequencies_: the call sites of one callee, in traversal order
CallSites(stmts, qname) ==
    SelectSeq(stmts, LAMBDA st : st.stmt \in {"CXXMemberCallExpr", "CallExpr"}
                                 /\ st.qualified_name = qname)

\* the callee names of the model in the order std::map iterates them
SortedCallees == << "Foo::get", "free", "malloc", "std::vector::push_back" >>

\* a generator that took a call on the line of the first loop header for a
\* call before the loops
CallFrequencyEffectInclusive(stmts, qname) ==
    LET calls == CallSites(stmts, qname)
        loops == loop_start_lines(stmts)
        first_loop_line == CHOOSE l \in loops : \A m \in loops : l <= m
    IN  [ kind |-> "CALL_FREQUENCY", target |-> qname, line |-> calls[1].line,
          confidence |-> 90, call_count |-> Len(calls),
          is_cached |-> (Len(calls) = 1 /\ isCallResultCached(calls[1])),
          occurs_at_start |->
              (loops = {} \/ \A i \in 1..Len(calls) : calls[i].line <= first_loop_line) ]

CallFrequencyEffect(stmts, qname) ==
    LET calls == CallSites(stmts, qname)
        loops == loop_start_lines(stmts)
        first_loop_line == CHOOSE l \in loops : \A m \in loops : l <= m
    IN  [ kind |-> "CALL_FREQUENCY", target |-> qname, line |-> calls[1].line,
          confidence |-> 90, call_count |-> Len(calls),
          is_cached |-> (Len(calls) = 1 /\ isCallResultCached(calls[1])),
          occurs_at_start |->
              (loops = {} \/ \A i \in 1..Len(calls) : calls[i].line < first_loop_line) ]

RECURSIVE CallFrequencyFrom(_, _)
CallFrequencyFrom(stmts, names) ==
    IF names = <<>> THEN <<>>
    ELSE (IF CallSites(stmts, Head(names)) = <<>> THEN <<>>
          ELSE << CallFrequencyEffect(stmts, Head(names)) >>)
         \o CallFrequencyFrom(stmts, Tail(names))

generateCallFrequencyEffects(func) == CallFrequencyFrom(func.stmts, SortedCallees)

\* EffectDetectorImpl::detectEffects
detectEffects(func) ==
    IF ~func.hasBody THEN <<>>
    ELSE EffectTraverseStmt(func, func.stmts) \o generateCallFrequencyEffects(func)

(***************************************************************************)
(* main.cpp, FunctionCallback::run: hazards and effects become axioms      *)
(***************************************************************************)

HazardIdSuffix(type) ==
    IF type = "DIVISION" THEN "divisor_nonzero"
    ELSE IF type = "POINTER_DEREF" THEN "ptr_valid"
    ELSE "bounds_check"

HazardContent(hazard) ==
    IF hazard.type = "DIVISION" THEN "Divisor " \o hazard.operand \o " must not be zero"
    ELSE IF hazard.type = "POINTER_DEREF" THEN "Pointer " \o hazard.operand \o " must not be null"
    ELSE IF hazard.type = "ARRAY_ACCESS" THEN "Index must be within bounds for " \o hazard.expression
    ELSE ""

HazardFormalSpec(hazard) ==
    IF hazard.type = "DIVISION" THEN hazard.operand \o " != 0"
    ELSE IF hazard.type = "POINTER_DEREF" THEN hazard.operand \o " != nullptr"
    ELSE IF hazard.type = "ARRAY_ACCESS" THEN "0 <= index && index < size"
    ELSE ""

\* a hazard precondition stated with full confidence
HazardAxiomCertain(info, hazard) ==
    MakeAxiom(info.qualified_name \o ".precond." \o HazardIdSuffix(hazard.type),
              HazardContent(hazard), HazardFormalSpec(hazard),
              info.qualified_name, "PRECONDITION", 100, "PATTERN")

HazardAxiom(info, hazard) ==
    [ MakeAxiom(info.qualified_name \o ".precond." \o HazardIdSuffix(hazard.type),
                HazardContent(hazard), HazardFormalSpec(hazard),
                info.qualified_name, "PRECONDITION", 95, "PATTERN")
      EXCEPT !.hazard_type = hazard.type, !.has_guard = "false" ]

RECURSIVE HazardAxioms(_, _)
HazardAxioms(info, hs) ==
    IF hs = <<>> THEN <<>>
    ELSE (IF ~Head(hs).has_guard THEN << HazardAxiom(info, Head(hs)) >> ELSE <<>>)
         \o HazardAxioms(info, Tail(hs))

EffectId(info, effect) ==
    CASE effect.kind = "PARAM_MODIFY" -> info.qualified_name \o ".effect.modifies_" \o effect.target
      [] effect.kind = "MEMBER_WRITE" -> info.qualified_name \o ".effect.writes_" \o effect.target
      [] effect.kind = "MEMORY_ALLOC" -> info.qualified_name \o ".effect.allocates"
      [] effect.kind = "MEMORY_FREE" -> info.qualified_name \o ".effect.deallocates"
      [] effect.kind = "CONTAINER_MODIFY" -> info.qualified_name \o ".effect.modifies_container"
      [] OTHER -> ""

EffectContent(effect) ==
    CASE effect.kind = "PARAM_MODIFY" -> "Modifies parameter " \o effect.target
      [] effect.kind = "MEMBER_WRITE" -> "Writes to member " \o effect.target
      [] effect.kind = "MEMORY_ALLOC" -> "Allocates memory for " \o effect.target
      [] effect.kind = "MEMORY_FREE" -> "Deallocates memory for " \o effect.target
      [] effect.kind = "CONTAINER_MODIFY" -> "Modifies container " \o effect.target
      [] OTHER -> ""

EffectFormalSpec(effect) ==
    CASE effect.kind = "PARAM_MODIFY" -> "modifies(" \o effect.target \o ")"
      [] effect.kind = "MEMBER_WRITE" -> "modifies(this." \o effect.target \o ")"
      [] effect.kind = "MEMORY_ALLOC" -> "allocates(" \o effect.target \o ")"
      [] effect.kind = "MEMORY_FREE" -> "deallocates(" \o effect.target \o ")"
      [] effect.kind = "CONTAINER_MODIFY" -> "modifies(" \o effect.target \o ")"
      [] OTHER -> ""

EffectAxiom(info, effect) ==
    MakeAxiom(EffectId(info, effect), EffectContent(effect), EffectFormalSpec(effect),
              info.qualified_name, "EFFECT", effect.confidence, "PATTERN")

RECURSIVE EffectAxioms(_, _)
EffectAxioms(info, es) ==
    IF es = <<>> THEN <<>>
    ELSE << EffectAxiom(info, Head(es)) >> \o EffectAxioms(info, Tail(es))

(***************************************************************************)
(* main.cpp, the callbacks for the other declarations                      *)
(***************************************************************************)

DeclAxiom(decl, suffix, content, formal_spec) ==
    MakeAxiom(decl.qualName \o suffix, content, formal_spec, decl.qualName,
              "CONSTRAINT", 100, "EXPLICIT")

\* ClassCallback::run
ClassAxioms(decl) ==
    LET a1 == PushIf(decl.isFinal, <<>>,
                     DeclAxiom(decl, ".final",
                               decl.name \o " cannot be inherited from (final class)",
                               "is_final(" \o decl.name \o ")"))
        a2 == PushIf(decl.isAbstract, a1,
                     DeclAxiom(decl, ".abstract",
                               decl.name \o " is abstract and cannot be instantiated directly",
                               "is_abstract(" \o decl.name \o ")"))
        a3 == PushIf(decl.hasDestructor /\ decl.isVirtualDtor, a2,
                     DeclAxiom(decl, ".virtual_dtor",
                               decl.name \o " has virtual destructor (safe for polymorphic use)",
                               "has_virtual_destructor(" \o decl.name \o ")"))
    IN  PushIf(decl.isTriviallyCopyable, a3,
               DeclAxiom(decl, ".trivially_copyable",
                         decl.name \o " is trivially copyable (safe for memcpy/memmove)",
                         "is_trivially_copyable(" \o decl.name \o ")"))

\* EnumCallback::run
EnumAxioms(decl) ==
    PushIf(decl.isScoped, <<>>,
           DeclAxiom(decl, ".scoped",
                     decl.name \o " is a scoped enum (enum class) - values require qualification",
                     "is_scoped_enum(" \o decl.name \o ")"))

\* StaticAssertCallback::run
StaticAssertAxioms(decl) ==
    << MakeAxiom(decl.header \o ".static_assert." \o to_string(decl.line),
                 IF decl.message = "" THEN "Static assertion: " \o decl.condStr
                                      ELSE decl.message,
                 decl.condStr, "", "INVARIANT", 100, "EXPLICIT") >>

\* ConceptCallback::run
ConceptAxioms(decl) ==
    << DeclAxiom(decl, ".concept",
                 "Concept " \o decl.name \o " requires: " \o decl.constraintStr,
                 decl.constraintStr) >>

\* TypeAliasCallback::run
TypeAliasAxioms(decl) ==
    PushIf(decl.aliasedType # "", <<>>,
           DeclAxiom(decl, ".type_alias",
                     decl.name \o " is an alias for " \o decl.aliasedType,
                     "type(" \o decl.name \o ") == " \o decl.aliasedType))

(***************************************************************************)
(* Character classes and the regular expressions of the macro analysis     *)
(***************************************************************************)

\* the characters the ordering of identifiers needs, in ASCII order
AsciiOrder == "0123456789:ABCDEFGHIJKLMNOPQRSTUVWXYZ_abcdefghijklmnopqrstuvwxyz"

CharRank(c) == Find(AsciiOrder, c)

LowerChars ==
    { "a", "b", "c", "d", "e", "f", "g", "h", "i", "j", "k", "l", "m",
      "n", "o", "p", "q", "r", "s", "t", "u", "v", "w", "x", "y", "z" }

UpperChars ==
    { "A", "B", "C", "D", "E", "F", "G", "H", "I", "J", "K", "L", "M",
      "N", "O", "P", "Q", "R", "S", "T", "U", "V", "W", "X", "Y", "Z" }

DigitChars == { "0", "1", "2", "3", "4", "5", "6", "7", "8", "9" }

IsLower(c) == c \in LowerChars

IsUpper(c) == c \in UpperChars

IsDigit(c) == c \in DigitChars

\* [a-zA-Z_]
IsIdStart(c) == IsLower(c) \/ IsUpper(c) \/ c = "_"

\* \w
IsWordChar(c) == IsIdStart(c) \/ IsDigit(c)

\* std::string operator<
StringLess(a, b) ==
    LET n == Min(Len(a), Len(b))
        diffs == { i \in 1..n : CharAt(a, i) # CharAt(b, i) }
        d == CHOOSE i \in diffs : \A j \in diffs : i <= j
    IN  IF diffs = {} THEN Len(a) < Len(b)
        ELSE CharRank(CharAt(a, d)) < CharRank(CharAt(b, d))

\* the elements of a set of strings in the order std::set / std::map iterate
RECURSIVE SortedStrings(_)
SortedStrings(S) ==
    IF S = {} THEN <<>>
    ELSE LET m == CHOOSE x \in S : \A y \in S \ {x} : StringLess(x, y)
         IN  <<m>> \o SortedStrings(S \ {m})

RECURSIVE SortedInts(_)
SortedInts(S) ==
    IF S = {} THEN <<>>
    ELSE LET m == CHOOSE x \in S : \A y \in S : x <= y
         IN  <<m>> \o SortedInts(S \ {m})

\* the positions where \b holds in front of a word character
WordStarts(s) ==
    { i \in 1..Len(s) : IsWordChar(CharAt(s, i)) /\ ~IsWordChar(CharAt(s, i - 1)) }

\* the last position of the run of word characters that starts at i
RECURSIVE WordRunEnd(_, _)
WordRunEnd(s, i) ==
    IF IsWordChar(CharAt(s, i)) THEN WordRunEnd(s, i + 1) ELSE i - 1

WordAt(s, i) == SubSeq(s, i, WordRunEnd(s, i))

\* \s* from position i: the first position that holds no blank
RECURSIVE SkipSpaces(_, _)
SkipSpaces(s, i) ==
    IF IsSpace(CharAt(s, i)) THEN SkipSpaces(s, i + 1) ELSE i

\* [^/]/[^/*]|%
divRegex(body) ==
    \E i \in 1..Len(body) :
       \/ CharAt(body, i) = "%"
       \/ /\ i + 2 <= Len(body)
          /\ CharAt(body, i) # "/"
          /\ CharAt(body, i + 1) = "/"
          /\ CharAt(body, i + 2) \notin {"/", "*"}

\* \*[a-zA-Z_]|&[a-zA-Z_]
ptrRegex(body) ==
    \E i \in 1..Len(body) :
       CharAt(body, i) \in {"*", "&"} /\ IsIdStart(CharAt(body, i + 1))

\* \([a-zA-Z_][a-zA-Z_0-9]*\s*\*?\s*\)
castRegex(body) ==
    \E i \in 1..Len(body) :
       /\ CharAt(body, i) = "("
       /\ IsIdStart(CharAt(body, i + 1))
       /\ LET j == SkipSpaces(body, WordRunEnd(body, i + 1) + 1)
              k == IF CharAt(body, j) = "*" THEN SkipSpaces(body, j + 1) ELSE j
          IN  CharAt(body, k) = ")"

MacroKeywords == { "if", "while", "for", "switch", "sizeof", "typeof", "alignof" }

\* \b([a-z_][a-zA-Z_0-9]*)\s*\( , every match that is no keyword
function_calls(body) ==
    LET hits == SortedInts({ i \in WordStarts(body) :
                   /\ (IsLower(CharAt(body, i)) \/ CharAt(body, i) = "_")
                   /\ CharAt(body, SkipSpaces(body, WordRunEnd(body, i) + 1)) = "("
                   /\ WordAt(body, i) \notin MacroKeywords })
    IN  [ k \in 1..Len(hits) |-> WordAt(body, hits[k]) ]

\* \b([A-Z_][A-Z_0-9]{2,})\b
referenced_macros(body) ==
    LET hits == SortedInts({ i \in WordStarts(body) :
                   /\ WordRunEnd(body, i) - i + 1 >= 3
                   /\ \A m \in i..WordRunEnd(body, i) :
                         LET c == CharAt(body, m)
                         IN  IsUpper(c) \/ c = "_" \/ (m > i /\ IsDigit(c)) })
    IN  [ k \in 1..Len(hits) |-> WordAt(body, hits[k]) ]

\* analyzeMacroBody: the fields it sets on the MacroDefinition
analyzeMacroBody(body, macro) ==
    [ macro EXCEPT !.has_division = divRegex(body),
                   !.has_pointer_ops = ptrRegex(body),
                   !.has_casts = castRegex(body),
                   !.function_calls = function_calls(body),
                   !.referenced_macros = referenced_macros(body) ]

\* \b[a-zA-Z_][a-zA-Z_0-9]*\s*<\s*([A-Z_][A-Z_0-9]*|[a-zA-Z_][a-zA-Z_0-9]*)\s*> :
\* the positions of the parameter of each match
TemplateCallHits(body) ==
    { i \in WordStarts(body) :
        /\ IsIdStart(CharAt(body, i))
        /\ LET lt == SkipSpaces(body, WordRunEnd(body, i) + 1)
               p == SkipSpaces(body, lt + 1)
           IN  /\ CharAt(body, lt) = "<"
               /\ IsIdStart(CharAt(body, p))
               /\ CharAt(body, SkipSpaces(body, WordRunEnd(body, p) + 1)) = ">" }

TemplateParamOf(body, i) ==
    WordAt(body, SkipSpaces(body, SkipSpaces(body, WordRunEnd(body, i) + 1) + 1))

CountChar(s, c) == Cardinality({ i \in 1..Len(s) : CharAt(s, i) = c })

\* \b(__[a-zA-Z_][a-zA-Z_0-9]*)\b
LocalVarHits(body) ==
    { i \in WordStarts(body) :
        Substr(body, i, i + 1) = "__" /\ IsIdStart(CharAt(body, i + 2)) }

\* analyzeMacroSemantics (main.cpp and MacroExtractor.cpp hold the same text)
analyzeMacroSemantics(body) ==
    LET tc == TemplateCallHits(body)
        first == CHOOSE i \in tc : \A j \in tc : i <= j
        lv == SortedInts(LocalVarHits(body))
    IN  [ has_reference_capture |-> Contains(body, "[&]"),
          has_lambda_capture |-> Contains(body, "[&]") \/ Contains(body, "[=]"),
          has_template_call |-> tc # {},
          template_param |-> IF tc = {} THEN "" ELSE TemplateParamOf(body, first),
          has_return_statement |-> \E i \in WordStarts(body) : WordAt(body, i) = "return",
          is_incomplete |-> \/ CountChar(body, "{") > CountChar(body, "}")
                            \/ CountChar(body, "(") > CountChar(body, ")"),
          has_loop_construct |->
              \E i \in WordStarts(body) :
                 /\ WordAt(body, i) \in {"for", "while"}
                 /\ CharAt(body, SkipSpaces(body, WordRunEnd(body, i) + 1)) = "(",
          creates_local_vars |-> lv # <<>>,
          local_vars |-> [ k \in 1..Len(lv) |-> WordAt(body, lv[k]) ] ]

(***************************************************************************)
(* Macro axioms: createMacroAxioms (main.cpp, run by the pipeline) and     *)
(* extractMacroAxioms (MacroExtractor.cpp)                                 *)
(***************************************************************************)

\* the elements of a list joined by ", "
RECURSIVE JoinComma(_)
JoinComma(xs) ==
    IF Len(xs) = 0 THEN ""
    ELSE IF Len(xs) = 1 THEN xs[1]
    ELSE xs[1] \o ", " \o JoinComma(SubSeq(xs, 2, Len(xs)))

\* MacroDefinition::to_signature
to_signature(macro) ==
    IF macro.is_function_like
    THEN macro.name \o "(" \o JoinComma(macro.parameters) \o ")"
    ELSE macro.name

MacroAxiom(macro, suffix, content, formal_spec, axiom_type, confidence, source_type) ==
    MakeAxiom(macro.name \o suffix, content, formal_spec, macro.name,
              axiom_type, confidence, source_type)

MacroHazardAxiom(macro, suffix, content, formal_spec, axiom_type, confidence, hazard_type) ==
    [ MacroAxiom(macro, suffix, content, formal_spec, axiom_type, confidence, "PATTERN")
      EXCEPT !.hazard_type = hazard_type, !.has_guard = "false" ]

MacroDefinitionContent(macro) ==
    "Macro " \o macro.name \o " is a function-like macro"
    \o (IF Len(macro.parameters) > 0
        THEN " with parameters: " \o JoinComma(macro.parameters) ELSE "")
    \o (IF Len(macro.referenced_macros) > 0
        THEN ". Expands to: "
             \o JoinComma(SubSeq(macro.referenced_macros, 1,
                                 Min(3, Len(macro.referenced_macros))))
             \o (IF Len(macro.referenced_macros) > 3 THEN "..." ELSE "")
        ELSE "")

MacroDefinitionAxiom(macro) ==
    MacroAxiom(macro, ".macro_definition", MacroDefinitionContent(macro),
               "is_function_like_macro(" \o macro.name \o ")", "CONSTRAINT", 100, "EXPLICIT")

MacroDivisionAxiom(macro) ==
    MacroHazardAxiom(macro, ".precond.divisor_nonzero",
                     "Divisor in macro " \o macro.name \o " must not be zero",
                     "divisor != 0", "PRECONDITION", 90, "DIVISION")

MacroPointerAxiom(macro) ==
    MacroHazardAxiom(macro, ".precond.ptr_valid",
                     "Pointer arguments to macro " \o macro.name \o " must be valid",
                     "ptr != nullptr", "PRECONDITION", 85, "POINTER_DEREF")

MacroCastAxiom(macro) ==
    MacroHazardAxiom(macro, ".constraint.cast_safety",
                     "Type cast in macro " \o macro.name \o " requires compatible types",
                     "is_compatible(source_type, target_type)", "CONSTRAINT", 80, "CAST")

\* the axioms for the semantic patterns; the two functions hold the same text
SemanticAxioms(macro, sem, start) ==
    LET varList == JoinComma(SortedStrings({ sem.local_vars[k] : k \in 1..Len(sem.local_vars) }))
        s1 == PushIf(sem.has_reference_capture, start,
                  MacroAxiom(macro, ".constraint.reference_capture",
                      "Variables used in " \o macro.name \o " are captured by reference ([&]), allowing modifications to affect the outer scope",
                      "capture_mode == by_reference", "CONSTRAINT", 100, "EXPLICIT"))
        s2 == PushIf(sem.has_reference_capture, s1,
                  MacroAxiom(macro, ".anti_pattern.dangling_reference",
                      "Passing temporary objects to " \o macro.name \o " may cause dangling references due to [&] capture",
                      "isTemporary(arg) -> undefined_behavior", "ANTI_PATTERN", 90, "PATTERN"))
        s3 == PushIf(sem.has_template_call /\ sem.template_param # "", s2,
                  MacroAxiom(macro, ".complexity.template_instantiation",
                      "Each unique value of " \o sem.template_param \o " causes a separate template instantiation, increasing compile time and code size",
                      "compile_time_cost proportional_to distinct_" \o sem.template_param \o "_values",
                      "COMPLEXITY", 95, "PATTERN"))
        s4 == PushIf(sem.is_incomplete, s3,
                  MacroAxiom(macro, ".constraint.requires_completion",
                      "Macro " \o macro.name \o " is syntactically incomplete and requires a companion macro or closing syntax",
                      "requires_companion_macro(" \o macro.name \o ")", "CONSTRAINT", 100, "EXPLICIT"))
        s5 == PushIf(sem.creates_local_vars /\ Len(sem.local_vars) > 0, s4,
                  MacroAxiom(macro, ".postcondition.local_vars_available",
                      "After " \o macro.name \o " expansion, the following identifiers are available in scope: " \o varList,
                      "in_scope({" \o varList \o "})", "POSTCONDITION", 95, "PATTERN"))
    IN  PushIf(sem.has_loop_construct, s5,
               MacroAxiom(macro, ".effect.iteration",
                   "Macro " \o macro.name \o " performs iteration over a range or condition",
                   "has_iteration_semantics", "EFFECT", 90, "PATTERN"))

\* main.cpp
createMacroAxioms(macro) ==
    LET sem == analyzeMacroSemantics(macro.body)
        m1 == PushIf(macro.is_function_like, <<>>, MacroDefinitionAxiom(macro))
        m2 == PushIf(macro.has_division, m1, MacroDivisionAxiom(macro))
    IN  SemanticAxioms(macro, sem, m2)

\* an extractor that described object-like macros as well
extractMacroAxiomsEveryMacro(macro) ==
    LET sem == analyzeMacroSemantics(macro.body)
        m1 == << MacroDefinitionAxiom(macro) >>
        m2 == PushIf(macro.has_division, m1, MacroDivisionAxiom(macro))
        m3 == PushIf(macro.has_pointer_ops, m2, MacroPointerAxiom(macro))
        m4 == PushIf(macro.has_casts, m3, MacroCastAxiom(macro))
    IN  SemanticAxioms(macro, sem, m4)

\* MacroExtractor.cpp
extractMacroAxioms(macro) ==
    LET sem == analyzeMacroSemantics(macro.body)
        m1 == PushIf(macro.is_function_like, <<>>, MacroDefinitionAxiom(macro))
        m2 == PushIf(macro.has_division, m1, MacroDivisionAxiom(macro))
        m3 == PushIf(macro.has_pointer_ops, m2, MacroPointerAxiom(macro))
        m4 == PushIf(macro.has_casts, m3, MacroCastAxiom(macro))
    IN  SemanticAxioms(macro, sem, m4)

\* MacroPPCallbacks::MacroDefined: the definition a #define yields
MacroDefined(name, parameters, is_function_like, body) ==
    analyzeMacroBody(body,
        [ name |-> name,
          parameters |-> IF is_function_like THEN parameters ELSE <<>>,
          body |-> body, is_function_like |-> is_function_like,
          has_division |-> FALSE, has_pointer_ops |-> FALSE, has_casts |-> FALSE,
          function_calls |-> <<>>, referenced_macros |-> <<>> ])

(***************************************************************************)
(* TestAssertExtractor.cpp                                                 *)
(***************************************************************************)

\* (std::\w+|[\w:]+Exception|[\w:]+Error) at position i: the text matched, "" if none
IsNameChar(c) == IsWordChar(c) \/ c = ":"

RECURSIVE NameRunEnd(_, _)
NameRunEnd(s, i) ==
    IF IsNameChar(CharAt(s, i)) THEN NameRunEnd(s, i + 1) ELSE i - 1

\* [\w:]+suffix at i, greedy: the longest match inside the run of name characters
SuffixMatchAt(s, i, suffix) ==
    LET e == NameRunEnd(s, i)
        ends == { k \in (i + Len(suffix))..e : SubSeq(s, k - Len(suffix) + 1, k) = suffix }
    IN  IF ends = {} THEN "" ELSE SubSeq(s, i, CHOOSE k \in ends : \A m \in ends : m <= k)

ExceptionMatchAt(s, i) ==
    IF Substr(s, i, i + 4) = "std::" /\ IsWordChar(CharAt(s, i + 5))
    THEN SubSeq(s, i, WordRunEnd(s, i + 5))
    ELSE IF SuffixMatchAt(s, i, "Exception") # "" THEN SuffixMatchAt(s, i, "Exception")
    ELSE SuffixMatchAt(s, i, "Error")

\* extractExceptionType
extractExceptionType(sourceText, condition) ==
    LET hits == { i \in 1..Len(sourceText) : ExceptionMatchAt(sourceText, i) # "" }
        first == CHOOSE i \in hits : \A j \in hits : i <= j
    IN  IF hits = {} THEN condition
        ELSE condition \o " throws " \o ExceptionMatchAt(sourceText, first)

MakeAssertion(a, is_fatal, axiom_type, condition) ==
    [ line |-> a.line, framework |-> a.framework, test_name |-> a.test_name,
      function_tested |-> a.function_tested, condition |-> condition,
      is_fatal |-> is_fatal, confidence |-> IF is_fatal THEN 85 ELSE 80,
      axiom_type |-> axiom_type ]

extractCatch2Assertion(a) ==
    LET fatal == Contains(a.sourceText, "ResultDisposition::Normal")
    IN  IF Contains(a.sourceText, "THROWS") \/ Contains(a.sourceText, "throws")
        THEN MakeAssertion(a, fatal, "EXCEPTION", extractExceptionType(a.sourceText, a.condition))
        ELSE IF Contains(a.sourceText, "NOTHROW")
        THEN MakeAssertion(a, fatal, "CONSTRAINT", a.condition)
        ELSE MakeAssertion(a, fatal, "POSTCONDITION", a.condition)

extractGTestAssertion(a) ==
    LET fatal == Contains(a.sourceText, "FATAL_FAILURE") \/ Contains(a.sourceText, "ASSERT_")
    IN  IF Contains(a.sourceText, "THROW")
        THEN MakeAssertion(a, fatal, "EXCEPTION", extractExceptionType(a.sourceText, a.condition))
        ELSE IF Contains(a.sourceText, "NO_THROW")
        THEN MakeAssertion(a, fatal, "CONSTRAINT", a.condition)
        ELSE MakeAssertion(a, fatal, "POSTCONDITION", a.condition)

extractBoostTestAssertion(a) ==
    LET fatal == Contains(a.sourceText, "REQUIRE")
    IN  IF Contains(a.sourceText, "THROW")
        THEN MakeAssertion(a, fatal, "EXCEPTION", extractExceptionType(a.sourceText, a.condition))
        ELSE IF Contains(a.sourceText, "NO_THROW")
        THEN MakeAssertion(a, fatal, "CONSTRAINT", a.condition)
        ELSE MakeAssertion(a, fatal, "POSTCONDITION", a.condition)

extractAssertion(a) ==
    CASE a.framework = "CATCH2" -> extractCatch2Assertion(a)
      [] a.framework = "GTEST" -> extractGTestAssertion(a)
      [] OTHER -> extractBoostTestAssertion(a)

TestAxiomContent(assertion) ==
    CASE assertion.axiom_type = "POSTCONDITION" ->
             IF assertion.function_tested # ""
             THEN assertion.function_tested \o " satisfies: " \o assertion.condition
             ELSE "Postcondition: " \o assertion.condition
      [] assertion.axiom_type = "EXCEPTION" -> "Throws exception: " \o assertion.condition
      [] assertion.axiom_type = "CONSTRAINT" -> "Does not throw (noexcept behavior)"
      [] OTHER -> assertion.condition

\* TestAssertExtractorImpl::toAxioms
RECURSIVE toAxioms(_)
toAxioms(assertions) ==
    IF assertions = <<>> THEN <<>>
    ELSE LET a == Head(assertions)
         IN  << MakeAxiom("test." \o a.test_name \o ".line" \o to_string(a.line),
                          TestAxiomContent(a), a.condition, a.function_tested,
                          a.axiom_type, a.confidence, "PATTERN") >>
             \o toAxioms(Tail(assertions))

(***************************************************************************)
(* FunctionExtractor.cpp.  A translation unit is the sequence of its       *)
(* function declarations in the order TraverseDecl reaches them: a         *)
(* FunctionTemplateDecl is followed by the FunctionDecl it describes.  A   *)
(* node is a record                                                        *)
(*   [node, name, line, isImplicit, describedFunctionTemplate,             *)
(*    isFunctionTemplateSpecialization, isFirstDecl, inSystemHeader,       *)
(*    instantiation]                                                       *)
(* where instantiation marks an implicit instantiation, which the visitor  *)
(* does not traverse (shouldVisitTemplateInstantiations is false).         *)
(***************************************************************************)

MakeFunctionInfo(decl, is_template) ==
    [ name |-> decl.name, line_start |-> decl.line, is_template |-> is_template ]

\* FunctionExtractorImpl::VisitFunctionDecl; the functions of the model are
\* no members of class templates, so extractAttributes leaves is_template false
VisitFunctionDecl(decl) ==
    IF decl.isImplicit THEN <<>>
    ELSE IF decl.describedFunctionTemplate THEN <<>>
    ELSE IF decl.isFunctionTemplateSpecialization THEN <<>>
    ELSE IF ~decl.isFirstDecl THEN <<>>
    ELSE IF decl.inSystemHeader THEN <<>>
    ELSE << MakeFunctionInfo(decl, FALSE) >>

\* FunctionExtractorImpl::VisitFunctionTemplateDecl; getTemplatedDecl is
\* never null for a declaration that was parsed
VisitFunctionTemplateDecl(decl) ==
    IF decl.inSystemHeader THEN <<>>
    ELSE << MakeFunctionInfo(decl, TRUE) >>

\* TraverseDecl over the translation unit
RECURSIVE TraverseDecl(_)
TraverseDecl(decls) ==
    IF decls = <<>> THEN <<>>
    ELSE LET decl == Head(decls)
         IN  (IF decl.instantiation THEN <<>>
              ELSE IF decl.node = "FunctionTemplateDecl"
              THEN VisitFunctionTemplateDecl(decl)
              ELSE VisitFunctionDecl(decl))
             \o TraverseDecl(Tail(decls))

\* FunctionExtractorImpl::extractFunctions
extractFunctions(unit) == TraverseDecl(unit.decls)

(***************************************************************************)
(* IgnoreFilter.h: the patterns of .axignore                               *)
(*                                                                         *)
(* A std::regex is the sequence of its atoms: a character, [^/], [^/]* or  *)
(* .* ; the regex is compiled with std::regex::icase.                      *)
(***************************************************************************)

ToLower(c) ==
    IF IsUpper(c)
    THEN CharAt("abcdefghijklmnopqrstuvwxyz", Find("ABCDEFGHIJKLMNOPQRSTUVWXYZ", c))
    ELSE c

RegexAtom(re, c) == [ re |-> re, c |-> c ]

\* IgnoreFilter::globToRegex, from position i of the glob on
RECURSIVE GlobFrom(_, _)
GlobFrom(glob, i) ==
    IF i > Len(glob) THEN <<>>
    ELSE LET c == CharAt(glob, i)
         IN  IF c = "*"
             THEN IF CharAt(glob, i + 1) = "*"
                  THEN << RegexAtom(".*", "") >>
                       \o GlobFrom(glob, IF CharAt(glob, i + 2) = "/" THEN i + 3 ELSE i + 2)
                  ELSE << RegexAtom("[^/]*", "") >> \o GlobFrom(glob, i + 1)
             ELSE IF c = "?"
             THEN << RegexAtom("[^/]", "") >> \o GlobFrom(glob, i + 1)
             ELSE << RegexAtom("char", c) >> \o GlobFrom(glob, i + 1)

globToRegex(glob) == GlobFrom(glob, 1)

\* the atoms of regex from t on match s at position i
RECURSIVE MatchFrom(_, _, _, _)
MatchFrom(regex, t, s, i) ==
    IF t > Len(regex) THEN TRUE
    ELSE LET atom == regex[t]
         IN  CASE atom.re = "char" ->
                     /\ i <= Len(s)
                     /\ ToLower(CharAt(s, i)) = ToLower(atom.c)
                     /\ MatchFrom(regex, t + 1, s, i + 1)
               [] atom.re = "[^/]" ->
                     /\ i <= Len(s)
                     /\ CharAt(s, i) # "/"
                     /\ MatchFrom(regex, t + 1, s, i + 1)
               [] atom.re = "[^/]*" ->
                     \E j \in i..(Len(s) + 1) :
                        /\ \A k \in i..(j - 1) : CharAt(s, k) # "/"
                        /\ MatchFrom(regex, t + 1, s, j)
               [] atom.re = ".*" ->
                     \E j \in i..(Len(s) + 1) : MatchFrom(regex, t + 1, s, j)

\* std::regex_search: the regex matches somewhere in s
regex_search(s, regex) == \E i \in 1..(Len(s) + 1) : MatchFrom(regex, 1, s, i)

NewIgnoreFilter ==
    [ patterns_ |-> <<>>, regexes_ |-> <<>>, testPatterns_ |-> <<>>, testRegexes_ |-> <<>> ]

addPattern(filter, pattern) ==
    [ filter EXCEPT !.patterns_ = Append(@, pattern),
                    !.regexes_ = Append(@, globToRegex(pattern)) ]

addTestPattern(filter, pattern) ==
    [ filter EXCEPT !.testPatterns_ = Append(@, pattern),
                    !.testRegexes_ = Append(@, globToRegex(pattern)) ]

IsBlank(c) == c = " " \/ c = "\t"

\* find_first_not_of(" \t") and find_last_not_of(" \t"), 0 for npos
FirstNotBlank(s) ==
    LET I == { k \in 1..Len(s) : ~IsBlank(CharAt(s, k)) }
    IN  IF I = {} THEN 0 ELSE CHOOSE k \in I : \A m \in I : k <= m

LastNotBlank(s) ==
    LET I == { k \in 1..Len(s) : ~IsBlank(CharAt(s, k)) }
    IN  IF I = {} THEN 0 ELSE CHOOSE k \in I : \A m \in I : k >= m

\* the body of the getline loop of IgnoreFilter::loadFromFile
LoadLine(filter, line0) ==
    IF line0 = "" \/ CharAt(line0, 1) = "#" THEN filter
    ELSE IF FirstNotBlank(line0) = 0 THEN filter
    ELSE LET line == SubSeq(line0, FirstNotBlank(line0), LastNotBlank(line0))
         IN  IF StartsWith(line, "@test:")
             THEN LET pattern == SubstrFrom(line, Len("@test:") + 1)
                  IN  IF FirstNotBlank(pattern) # 0
                      THEN addTestPattern(filter, SubstrFrom(pattern, FirstNotBlank(pattern)))
                      ELSE filter
             ELSE addPattern(filter, line)

RECURSIVE loadFromFile(_, _)
loadFromFile(filter, lines) ==
    IF lines = <<>> THEN filter
    ELSE loadFromFile(LoadLine(filter, Head(lines)), Tail(lines))

\* only the regular patterns are tried
shouldIgnoreRegularOnly(filter, path) ==
    \E k \in 1..Len(filter.regexes_) : regex_search(path, filter.regexes_[k])

shouldIgnore(filter, path) ==
    \/ \E k \in 1..Len(filter.regexes_) : regex_search(path, filter.regexes_[k])
    \/ \E k \in 1..Len(filter.testRegexes_) : regex_search(path, filter.testRegexes_[k])

shouldIgnoreInTestMode(filter, path) ==
    \E k \in 1..Len(filter.regexes_) : regex_search(path, filter.regexes_[k])

isTestPath(filter, path) ==
    \E k \in 1..Len(filter.testRegexes_) : regex_search(path, filter.testRegexes_[k])

makeRelative(path, projectRoot) ==
    IF StartsWith(path, projectRoot)
    THEN LET start == Len(projectRoot) + 1
         IN  SubstrFrom(path, IF CharAt(path, start) = "/" THEN start + 1 ELSE start)
    ELSE path

\* main.cpp, shouldIgnorePath, for a filter that is not null
shouldIgnorePath(filter, path, projectRoot, testMode) ==
    IF testMode THEN shouldIgnoreInTestMode(filter, makeRelative(path, projectRoot))
    ELSE shouldIgnore(filter, makeRelative(path, projectRoot))

(***************************************************************************)
(* CallGraphExtractor.cpp: CallVisitor                                     *)
(*                                                                         *)
(* A node of the body is a call expression or a construction: its class,   *)
(* the declaration its callee resolves to ("function", "method", or "none" *)
(* for a call through a pointer or a dependent name), the callee's name,   *)
(* whether the method is virtual or the constructor a default constructor, *)
(* its arguments and its line.                                             *)
(***************************************************************************)

MakeFunctionCall(caller, node, is_virtual) ==
    [ caller |-> caller, callee |-> node.callee, line |-> node.line,
      is_virtual |-> is_virtual, arguments |-> node.args ]

\* CallVisitor::VisitCallExpr
CallVisitCallExpr(caller, node) ==
    IF node.class = "CXXMemberCallExpr" THEN <<>>
    ELSE IF node.decl # "none" THEN << MakeFunctionCall(caller, node, FALSE) >>
    ELSE <<>>

\* CallVisitor::VisitCXXMemberCallExpr
CallVisitCXXMemberCallExpr(caller, node) ==
    IF node.decl # "none" THEN << MakeFunctionCall(caller, node, node.is_virtual) >>
    ELSE <<>>

\* CallVisitor::VisitCXXOperatorCallExpr
CallVisitCXXOperatorCallExpr(caller, node) ==
    IF node.decl # "none" /\ node.decl = "method"
    THEN << MakeFunctionCall(caller, node, node.is_virtual) >>
    ELSE <<>>

\* CallVisitor::VisitCXXConstructExpr
CallVisitCXXConstructExpr(caller, node) ==
    IF node.decl = "none" THEN <<>>
    ELSE IF Len(node.args) = 0 /\ node.is_default THEN <<>>
    ELSE << MakeFunctionCall(caller, node, FALSE) >>

\* RecursiveASTVisitor::WalkUpFrom<Class>: the Visit functions of the base
\* classes run before the one of the class itself; CXXMemberCallExpr and
\* CXXOperatorCallExpr derive from CallExpr, CXXConstructExpr from Expr
WalkUpFrom(caller, node) ==
    CASE node.class = "CallExpr" -> CallVisitCallExpr(caller, node)
      [] node.class = "CXXMemberCallExpr" ->
            CallVisitCallExpr(caller, node) \o CallVisitCXXMemberCallExpr(caller, node)
      [] node.class = "CXXOperatorCallExpr" ->
            CallVisitCallExpr(caller, node) \o CallVisitCXXOperatorCallExpr(caller, node)
      [] node.class = "CXXConstructExpr" -> CallVisitCXXConstructExpr(caller, node)
      [] OTHER -> <<>>

RECURSIVE CallTraverseStmt(_, _)
CallTraverseStmt(caller, nodes) ==
    IF nodes = <<>> THEN <<>>
    ELSE WalkUpFrom(caller, Head(nodes)) \o CallTraverseStmt(caller, Tail(nodes))

\* CallGraphExtractorImpl::extractCalls
extractCalls(func) ==
    IF ~func.hasBody THEN <<>>
    ELSE CallTraverseStmt(func.qualified_name, func.body)

(***************************************************************************)
(* main.cpp: mergeResults                                                  *)
(***************************************************************************)

IndexOfFile(rs, file) ==
    LET hits == { k \in 1..Len(rs) : rs[k].source_file = file }
    IN  IF hits = {} THEN 0 ELSE CHOOSE k \in hits : \A j \in hits : k <= j

\* mergeResults: the axioms of a file already in target are appended to it,
\* another result is moved to the end of target
RECURSIVE mergeResults(_, _)
mergeResults(target, source) ==
    IF source = <<>> THEN target
    ELSE LET result == Head(source)
             k == IndexOfFile(target, result.source_file)
         IN  mergeResults(IF k # 0
                          THEN [ target EXCEPT ![k].axioms = @ \o result.axioms ]
                          ELSE Append(target, result),
                          Tail(source))

(***************************************************************************)
(* The declarations the extractors are applied to                          *)
(***************************************************************************)

\* the longest function body, in statements
MaxBody == 2

\* the largest number of assertions of one test translation unit
MaxAssertions == 2

Signatures ==
    { "void plainFunction()", "bool ok()", "static bool ns::ok()",
      "std::optional<int> find(int k)", "std::expected<int, Err> parse()",
      "int* data()", "int MyClass::getValue() const noexcept",
      "const char* name()", "explicit operator bool() const", "~Foo()" }

TemplateShapes ==
    { [ is_template |-> FALSE, is_variadic_template |-> FALSE, template_param_count |-> 0 ],
      [ is_template |-> TRUE, is_variadic_template |-> FALSE, template_param_count |-> 2 ],
      [ is_template |-> TRUE, is_variadic_template |-> TRUE, template_param_count |-> 1 ],
      [ is_template |-> TRUE, is_variadic_template |-> FALSE, template_param_count |-> 0 ] }

FunctionInfos ==
    { [ name |-> "f", qualified_name |-> "ns::f", signature |-> sig,
        is_noexcept |-> fl[1], is_nodiscard |-> fl[2], is_const |-> fl[3],
        is_deleted |-> fl[4], is_constexpr |-> fl[5], is_consteval |-> fl[6],
        is_deprecated |-> fl[7], requires_clause |-> req,
        is_template |-> t.is_template,
        is_variadic_template |-> t.is_variadic_template,
        template_param_count |-> t.template_param_count ] :
      sig \in Signatures, fl \in [1..7 -> BOOLEAN],
      req \in {"", "std::integral<T>"}, t \in TemplateShapes }

\* the function the bodies below belong to
BodyInfo == [ name |-> "f", qualified_name |-> "ns::f" ]

BinOp(opcode, sym, rhs, line) ==
    [ node |-> "BinaryOperator", opcode |-> opcode, rhs |-> rhs,
      src |-> "a " \o sym \o " " \o rhs.src,
      lastTok |-> Len(sym) + 3 + rhs.lastTok, line |-> line ]

UnOp(opcode, sym, sub, line) ==
    [ node |-> "UnaryOperator", opcode |-> opcode, rhs |-> sub,
      src |-> sym \o sub.src, lastTok |-> Len(sym) + sub.lastTok, line |-> line ]

Member(base, opcode, sym, line) ==
    [ node |-> "MemberExpr", opcode |-> opcode, rhs |-> base,
      src |-> base.src \o sym \o "x", lastTok |-> Len(base.src) + Len(sym) + 1,
      line |-> line ]

Subscript(idx, line) ==
    [ node |-> "ArraySubscriptExpr", opcode |-> "[]", rhs |-> idx,
      src |-> "v[" \o idx.src \o "]", lastTok |-> Len(idx.src) + 3, line |-> line ]

ReinterpretCast(sub, line) ==
    [ node |-> "CXXReinterpretCastExpr", opcode |-> "reinterpret_cast", rhs |-> sub,
      src |-> "reinterpret_cast<T*>(" \o sub.src \o ")",
      lastTok |-> Len(sub.src) + 22, line |-> line ]

\* the divisors; the value of a literal is its magnitude (2 for 2.0, 99 for 'c')
Divisors ==
    { Lit("IntegerLiteral", 2, "2"), Lit("IntegerLiteral", 0, "0"),
      Lit("FloatingLiteral", 2, "2.0"), Lit("FloatingLiteral", 0, "0.0"),
      ImplicitCast(Lit("CharacterLiteral", 99, "'c'")),
      ImplicitCast(Lit("CXXBoolLiteralExpr", 1, "true")),
      DeclRef("b"), Paren(DeclRef("b")),
      Paren(Lit("IntegerLiteral", 2, "2")), ImplicitCast(Lit("IntegerLiteral", 2, "2")),
      ImplicitCast(Paren(Lit("IntegerLiteral", 2, "2"))),
      ImplicitCast(Lit("FloatingLiteral", 2, "2.0")),
      Minus(Lit("IntegerLiteral", 2, "2")) }

\* the binary operators of the bodies: every divisor under / and (but for
\* the floating ones) under %, and two operators that are no division
BinaryNodesAt(line) ==
    { BinOp("BO_Div", "/", d, line) : d \in Divisors }
    \cup { BinOp("BO_Rem", "%", d, line) :
            d \in { e \in Divisors : IgnoreParenImpCasts(e).kind # "FloatingLiteral" } }
    \cup { BinOp("BO_Add", "+", DeclRef("b"), line),
           BinOp("BO_DivAssign", "/=", DeclRef("b"), line),
           BinOp("BO_DivAssign", "/=", Lit("IntegerLiteral", 2, "2"), line) }

NodesAt(line) ==
    BinaryNodesAt(line)
    \cup { UnOp("UO_Deref", "*", DeclRef("p"), line),
           UnOp("UO_Deref", "*", ThisExpr, line),
           UnOp("UO_Minus", "-", DeclRef("b"), line),
           Member(DeclRef("p"), "arrow", "->", line),
           Member(ImplicitCast(ThisExpr), "arrow", "->", line),
           Member(DeclRef("s"), "dot", ".", line),
           Subscript(DeclRef("i"), line),
           Subscript(Lit("IntegerLiteral", 0, "0"), line),
           Subscript(Lit("IntegerLiteral", 2, "2"), line),
           ReinterpretCast(DeclRef("p"), line) }

\* the bodies of n statements; statement k stands on line k
RECURSIVE BodiesOfLen(_)
BodiesOfLen(n) ==
    IF n = 0 THEN { <<>> }
    ELSE { Append(b, x) : b \in BodiesOfLen(n - 1), x \in NodesAt(n) }

\* a variable read as an rvalue
Rv(name) == CastTo("CK_LValueToRValue", DeclRef(name))

Zero == Lit("IntegerLiteral", 0, "0")

NeZero == BinExpr("BO_NE", "!=", Rv("b"), Zero)

NeNullptr ==
    BinExpr("BO_NE", "!=", Rv("p"),
            CastTo("CK_NullToPointer", Lit("CXXNullPtrLiteralExpr", 0, "nullptr")))

LessThan == BinExpr("BO_LT", "<", Rv("i"), Rv("n"))

PtrToBool(name) == CastTo("CK_PointerToBoolean", Rv(name))

\* the condition of the if statement the statements of a body stand in:
\* none, b != 0, p != nullptr, i < n, b == 0
IfConds == { NoExpr, NeZero, NeNullptr, LessThan, BinExpr("BO_EQ", "==", Rv("b"), Zero) }

\* the statements of the bodies that stand in an if statement: a / b,
\* a % b, a / 2, *p, p->x, v[i], v[2]
GuardedNodesAt(line) ==
    { BinOp("BO_Div", "/", DeclRef("b"), line),
      BinOp("BO_Rem", "%", DeclRef("b"), line),
      BinOp("BO_Div", "/", Lit("IntegerLiteral", 2, "2"), line),
      UnOp("UO_Deref", "*", DeclRef("p"), line),
      Member(DeclRef("p"), "arrow", "->", line),
      Subscript(DeclRef("i"), line),
      Subscript(Lit("IntegerLiteral", 2, "2"), line) }

RECURSIVE GuardedBodiesOfLen(_)
GuardedBodiesOfLen(n) ==
    IF n = 0 THEN { <<>> }
    ELSE { Append(b, x) : b \in GuardedBodiesOfLen(n - 1), x \in GuardedNodesAt(n) }

\* a declaration without body, the bodies of up to maxBody statements outside
\* any if statement, and the bodies whose statements stand in an if statement
Bodies(maxBody) ==
    { [ info |-> BodyInfo, hasBody |-> FALSE, body |-> <<>>, ifCond |-> NoExpr ] }
    \cup { [ info |-> BodyInfo, hasBody |-> TRUE, body |-> b, ifCond |-> NoExpr ] :
           b \in UNION { BodiesOfLen(n) : n \in 0..maxBody } }
    \cup { [ info |-> BodyInfo, hasBody |-> TRUE, body |-> b, ifCond |-> c ] :
           b \in UNION { GuardedBodiesOfLen(n) : n \in 1..maxBody },
           c \in IfConds \ {NoExpr} }

\* the statements the effect detector looks at
EffectStmt(stmt, opcode, lhs, name, qualified_name, parents, line) ==
    [ stmt |-> stmt, opcode |-> opcode, lhs |-> lhs, name |-> name,
      qualified_name |-> qualified_name, parents |-> parents, line |-> line,
      loop |-> 0 ]

\* the places a call stands in:  int x = f();   double x = f();  (f returns
\* int)   x = f();   d = f();  (d a double)   f() = 1;  (f returns a
\* reference)   if (x == f())   f();
StoredByDecl == << ParentNode("VarDecl", "", "") >>

ConvertedDecl == << ParentNode("ImplicitCastExpr", "", ""), ParentNode("VarDecl", "", "") >>

AssignedFrom == << ParentNode("BinaryOperator", "BO_Assign", "rhs"),
                   ParentNode("CompoundStmt", "", "") >>

ConvertedAssign == << ParentNode("ImplicitCastExpr", "", ""),
                      ParentNode("BinaryOperator", "BO_Assign", "rhs"),
                      ParentNode("CompoundStmt", "", "") >>

AssignedTo == << ParentNode("BinaryOperator", "BO_Assign", "lhs"),
                 ParentNode("CompoundStmt", "", "") >>

Compared == << ParentNode("BinaryOperator", "BO_EQ", "rhs"), ParentNode("IfStmt", "", "") >>

Discarded == << ParentNode("CompoundStmt", "", "") >>

CallPlaces ==
    { StoredByDecl, ConvertedDecl, AssignedFrom, ConvertedAssign, AssignedTo, Compared,
      Discarded }

EffectStmtsAt(line) ==
    { EffectStmt("BinaryOperator", "BO_Assign", "DeclRefExpr", "out", "", <<>>, line),
      EffectStmt("BinaryOperator", "BO_Assign", "DeclRefExpr", "local", "", <<>>, line),
      EffectStmt("BinaryOperator", "BO_AddAssign", "MemberExpr", "count_", "", <<>>, line),
      EffectStmt("BinaryOperator", "BO_Assign", "Deref", "p", "", <<>>, line),
      EffectStmt("BinaryOperator", "BO_Add", "DeclRefExpr", "out", "", <<>>, line),
      EffectStmt("UnaryOperator", "UO_PreInc", "DeclRefExpr", "out", "", <<>>, line),
      EffectStmt("UnaryOperator", "UO_PostDec", "MemberExpr", "count_", "", <<>>, line),
      EffectStmt("UnaryOperator", "UO_Deref", "DeclRefExpr", "p", "", <<>>, line),
      EffectStmt("CXXNewExpr", "", "", "int", "", <<>>, line),
      EffectStmt("CXXDeleteExpr", "", "", "p", "", <<>>, line),
      EffectStmt("CXXMemberCallExpr", "", "v", "push_back", "std::vector::push_back",
                 Discarded, line),
      EffectStmt("CallExpr", "", "n", "malloc", "malloc", StoredByDecl, line),
      EffectStmt("CallExpr", "", "p", "free", "free", Discarded, line),
      EffectStmt("ForStmt", "", "", "", "", <<>>, line),
      EffectStmt("WhileStmt", "", "", "", "", <<>>, line),
      EffectStmt("CXXForRangeStmt", "", "", "", "", <<>>, line),
      EffectStmt("DoStmt", "", "", "", "", <<>>, line) }
    \cup { EffectStmt("CXXMemberCallExpr", "", "foo", "get", "Foo::get", place, line) :
            place \in CallPlaces }

\* the statements of every kind of loop
AllLoopStmts == { "ForStmt", "WhileStmt", "CXXForRangeStmt", "DoStmt" }

\* the loops of body b the statement x can stand in, 0 for none; the model
\* places only calls in loops
EnclosingLoops(b, x) ==
    {0} \cup { k \in 1..Len(b) : /\ b[k].stmt \in AllLoopStmts
                                  /\ x.stmt \in {"CXXMemberCallExpr", "CallExpr"} }

\* statement x as statement n of body b: outside every loop on a line of its
\* own, or in the body of loop k, on a line of its own or on the line of the
\* statement before it (for the first statement of the body the loop header)
Placed(b, x, n) ==
    UNION { { [ x EXCEPT !.loop = k, !.line = l ] :
                l \in IF k = 0 THEN {n} ELSE {n, n - 1} } : k \in EnclosingLoops(b, x) }

RECURSIVE EffectBodiesOfLen(_)
EffectBodiesOfLen(n) ==
    IF n = 0 THEN { <<>> }
    ELSE UNION { { Append(b, y) : y \in UNION { Placed(b, x, n) : x \in EffectStmtsAt(n) } } :
                 b \in EffectBodiesOfLen(n - 1) }

\* out is a non-const reference parameter, p a pointer to non-const
EffectFunctions(maxBody) ==
    { [ info |-> BodyInfo, hasBody |-> FALSE, isConstMethod |-> cm,
        modifiableParams |-> {"out"}, pointerParams |-> {"p"}, stmts |-> <<>> ] :
      cm \in BOOLEAN }
    \cup
    { [ info |-> BodyInfo, hasBody |-> TRUE, isConstMethod |-> cm,
        modifiableParams |-> {"out"}, pointerParams |-> {"p"}, stmts |-> b ] :
      cm \in BOOLEAN,
      b \in UNION { EffectBodiesOfLen(n) : n \in 0..maxBody } }

ClassDecls ==
    { [ name |-> "Widget", qualName |-> "ui::Widget", isFinal |-> fl[1],
        isAbstract |-> fl[2], hasDestructor |-> fl[3], isVirtualDtor |-> fl[4],
        isTriviallyCopyable |-> fl[5] ] : fl \in [1..5 -> BOOLEAN] }

EnumDecls ==
    { [ name |-> "Color", qualName |-> "ui::Color", isScoped |-> sc ] : sc \in BOOLEAN }

StaticAssertDecls ==
    { [ header |-> "widget.h", line |-> 7, condStr |-> "sizeof(int) == 4", message |-> m ] :
      m \in {"", "int must be 32 bit"} }

ConceptDecls ==
    { [ name |-> "Addable", qualName |-> "ui::Addable", constraintStr |-> c ] :
      c \in {"requires (T a) { a + a; }", ""} }

TypeAliasDecls ==
    { [ name |-> "Id", qualName |-> "ui::Id", aliasedType |-> t ] : t \in {"", "int"} }

MacroBodies ==
    { "((a) / (b))", "(*(p))", "for (auto& __it : c) {", "x + 1", "MAX_SIZE * 2",
      "[&]() { return run<N>(a); }()", "[=] { return __b + __a; }", "a % b",
      "(char*)a + *b" }

Macros ==
    { MacroDefined("M", <<"a", "b">>, fl, body) : fl \in BOOLEAN, body \in MacroBodies }

\* an assertion call as the visitor finds it: the framework whose namespace
\* the callee matched and the source text at the call
AssertionCallsAt(line) ==
    { [ framework |-> c[1], sourceText |-> c[2], condition |-> "f() == 1",
        function_tested |-> c[3], test_name |-> "T", line |-> line ] :
      c \in { <<"CATCH2", "ResultDisposition::Normal", "f">>,
              <<"CATCH2", "ResultDisposition::ContinueOnFailure", "">>,
              <<"CATCH2", "REQUIRE_THROWS_AS(f(), std::out_of_range) ResultDisposition::Normal", "f">>,
              <<"CATCH2", "CHECK_NOTHROW(f())", "f">>,
              <<"GTEST", "GTEST_FATAL_FAILURE_(x)", "f">>,
              <<"GTEST", "GTEST_NONFATAL_FAILURE_(x)", "f">>,
              <<"GTEST", "ASSERT_THROW(f(), MyError)", "f">>,
              <<"GTEST", "EXPECT_NO_THROW(f())", "f">>,
              <<"BOOST_TEST", "BOOST_REQUIRE(x)", "f">>,
              <<"BOOST_TEST", "BOOST_CHECK(x)", "">>,
              <<"BOOST_TEST", "BOOST_CHECK_THROW(f(), ParseException)", "f">>,
              <<"BOOST_TEST", "BOOST_REQUIRE_NO_THROW(f())", "f">> } }

RECURSIVE AssertionCallsOfLen(_)
AssertionCallsOfLen(n) ==
    IF n = 0 THEN { <<>> }
    ELSE { Append(b, x) : b \in AssertionCallsOfLen(n - 1), x \in AssertionCallsAt(n) }

TestUnits(maxAssertions) == UNION { AssertionCallsOfLen(n) : n \in 0..maxAssertions }

\* the most functions and function templates of a translation unit
MaxEntities == 2

DeclNode(node, name, line) ==
    [ node |-> node, name |-> name, line |-> line, isImplicit |-> FALSE,
      describedFunctionTemplate |-> FALSE,
      isFunctionTemplateSpecialization |-> FALSE, isFirstDecl |-> TRUE,
      inSystemHeader |-> FALSE, instantiation |-> FALSE ]

\* a function or function template of a translation unit: the number of its
\* declarations (2: a forward declaration followed by the definition),
\* whether it stands in a system header, whether it is implicit, whether
\* the unit holds an explicit specialization and an implicit instantiation
Entities ==
    { [ template |-> FALSE, redecls |-> r, system |-> sy, implicit |-> im,
        specialized |-> FALSE, instantiated |-> FALSE ] :
      r \in 1..2, sy \in BOOLEAN, im \in BOOLEAN }
    \cup
    { [ template |-> TRUE, redecls |-> r, system |-> sy, implicit |-> FALSE,
        specialized |-> sp, instantiated |-> ins ] :
      r \in 1..2, sy \in BOOLEAN, sp \in BOOLEAN, ins \in BOOLEAN }

\* the nodes of entity e, named name, from line base on
EntityDecls(e, name, base) ==
    LET one(k) ==
          LET d == [ DeclNode("FunctionDecl", name, base + k) EXCEPT
                       !.isImplicit = e.implicit, !.isFirstDecl = (k = 1),
                       !.inSystemHeader = e.system,
                       !.describedFunctionTemplate = e.template ]
          IN  IF e.template
              THEN << [ d EXCEPT !.node = "FunctionTemplateDecl",
                                 !.describedFunctionTemplate = FALSE ], d >>
              ELSE << d >>
        spec == [ DeclNode("FunctionDecl", name, base + 3) EXCEPT
                    !.isFunctionTemplateSpecialization = TRUE,
                    !.inSystemHeader = e.system ]
    IN  one(1)
        \o (IF e.redecls = 2 THEN one(2) ELSE <<>>)
        \o (IF e.specialized THEN << spec >> ELSE <<>>)
        \o (IF e.instantiated
            THEN << [ spec EXCEPT !.line = base + 2, !.instantiation = TRUE ] >> ELSE <<>>)

EntityNames == << "f", "g", "h" >>

RECURSIVE UnitDecls(_, _)
UnitDecls(es, k) ==
    IF k > Len(es) THEN <<>>
    ELSE EntityDecls(es[k], EntityNames[k], 10 * k) \o UnitDecls(es, k + 1)

FunctionUnits(maxEntities) ==
    { [ entities |-> es, decls |-> UnitDecls(es, 1) ] :
      es \in UNION { [1..n -> Entities] : n \in 0..maxEntities } }

\* the longest .axignore, in lines
MaxLines == 2

AxignoreLines ==
    { "build/", "@test: tests/", "@test:*_test.cpp", "# generated", "**/gen/",
      " docs/ ", "?.H" }

RECURSIVE AxignoresOfLen(_)
AxignoresOfLen(n) ==
    IF n = 0 THEN { <<>> }
    ELSE { Append(ls, l) : ls \in AxignoresOfLen(n - 1), l \in AxignoreLines }

ProjectRoot == "/p"

IgnorePaths ==
    { "/p/src/a.cpp", "/p/tests/a.cpp", "/p/build/gen/a.hpp", "/p/src/a_test.cpp",
      "/p/Tests/b.h", "/q/docs/x.h" }

IgnoreQueries(maxLines) ==
    { [ lines |-> ls, path |-> path, projectRoot |-> ProjectRoot, testMode |-> tm ] :
        ls \in UNION { AxignoresOfLen(n) : n \in 0..maxLines },
        path \in IgnorePaths, tm \in BOOLEAN }

\* the most batches whose results are merged
MaxBatches == 2

\* the results a batch can return for a.cpp and the header h.hpp
BatchResult(file, axs, errs) == [ source_file |-> file, axioms |-> axs, errors |-> errs ]

ResultsFor(file, errors) ==
    { BatchResult(file, axs, errs) :
        axs \in { <<>>, << file \o ".f.noexcept" >> }, errs \in errors }

BatchResultLists ==
    LET source == ResultsFor("a.cpp", { <<>>, << "a.cpp: error" >> })
        header == ResultsFor("h.hpp", { <<>> })
    IN  { <<>> }
        \cup { << r >> : r \in source \cup header }
        \cup { << r, h >> : r \in source, h \in header }

RECURSIVE BatchRuns(_)
BatchRuns(n) ==
    IF n = 0 THEN { <<>> }
    ELSE { Append(bs, b) : bs \in BatchRuns(n - 1), b \in BatchResultLists }

MergeInputs(maxBatches) == UNION { BatchRuns(n) : n \in 1..maxBatches }

\* the most call sites of a function body
MaxCalls == 2

CallNode(class, decl, callee, is_virtual, is_default, args, line) ==
    [ class |-> class, decl |-> decl, callee |-> callee, is_virtual |-> is_virtual,
      is_default |-> is_default, args |-> args, line |-> line ]

\* g(x);  fp(x);  obj.run();  obj.draw() (virtual);  (obj.*pm)();
\* a + b (member operator+);  a == b (operator== outside the class);
\* Foo f;  Foo f(x);  Foo g = f; (copy constructor)
CallNodesAt(line) ==
    { CallNode("CallExpr", "function", "g", FALSE, FALSE, <<"x">>, line),
      CallNode("CallExpr", "none", "", FALSE, FALSE, <<"x">>, line),
      CallNode("CXXMemberCallExpr", "method", "Obj::run", FALSE, FALSE, <<>>, line),
      CallNode("CXXMemberCallExpr", "method", "Shape::draw", TRUE, FALSE, <<>>, line),
      CallNode("CXXMemberCallExpr", "none", "", FALSE, FALSE, <<>>, line),
      CallNode("CXXOperatorCallExpr", "method", "Vec::operator+", FALSE, FALSE,
               <<"a", "b">>, line),
      CallNode("CXXOperatorCallExpr", "function", "operator==", FALSE, FALSE,
               <<"a", "b">>, line),
      CallNode("CXXConstructExpr", "method", "Foo::Foo", FALSE, TRUE, <<>>, line),
      CallNode("CXXConstructExpr", "method", "Foo::Foo", FALSE, FALSE, <<"x">>, line),
      CallNode("CXXConstructExpr", "method", "Foo::Foo", FALSE, FALSE, <<"f">>, line) }

RECURSIVE CallBodiesOfLen(_)
CallBodiesOfLen(n) ==
    IF n = 0 THEN { <<>> }
    ELSE { Append(b, x) : b \in CallBodiesOfLen(n - 1), x \in CallNodesAt(n) }

CallerFunctions(maxCalls) ==
    { [ qualified_name |-> "ns::f", hasBody |-> FALSE, body |-> <<>> ] }
    \cup { [ qualified_name |-> "ns::f", hasBody |-> TRUE, body |-> b ] :
             b \in UNION { CallBodiesOfLen(n) : n \in 0..maxCalls } }

\* TestAssertVisitor: the assertions of a translation unit, in traversal order
extractAssertions(calls) == [ k \in 1..Len(calls) |-> extractAssertion(calls[k]) ]

(***************************************************************************)
(* SpecExtract                                                             *)
(***************************************************************************)

InitExtract ==
    /\ \/ exKind = "function" /\ exInput \in FunctionInfos
       \/ exKind = "body" /\ exInput \in Bodies(MaxBody)
       \/ exKind = "effects" /\ exInput \in EffectFunctions(MaxBody)
       \/ exKind = "class" /\ exInput \in ClassDecls
       \/ exKind = "enum" /\ exInput \in EnumDecls
       \/ exKind = "static_assert" /\ exInput \in StaticAssertDecls
       \/ exKind = "concept" /\ exInput \in ConceptDecls
       \/ exKind = "alias" /\ exInput \in TypeAliasDecls
       \/ exKind = "macro" /\ exInput \in Macros
       \/ exKind = "test" /\ exInput \in TestUnits(MaxAssertions)
       \/ exKind = "unit" /\ exInput \in FunctionUnits(MaxEntities)
       \/ exKind = "ignore" /\ exInput \in IgnoreQueries(MaxLines)
       \/ exKind = "merge" /\ exInput \in MergeInputs(MaxBatches)
       \/ exKind = "calls" /\ exInput \in CallerFunctions(MaxCalls)
    /\ exPc = "input"
    /\ axioms = <<>>
    /\ hazards = <<>>
    /\ effects = <<>>
    /\ functions_ = <<>>
    /\ ignoreFilter = "none"
    /\ ignored = "none"
    /\ calls_ = <<>>
    /\ GuardIdle
    /\ MainIdle

ExtractConstraints ==
    /\ exKind = "function"
    /\ exPc = "input"
    /\ axioms' = extractConstraints(exInput)
    /\ exPc' = "done"
    /\ UNCHANGED <<exKind, exInput, hazards, effects, functions_, ignoreFilter, ignored, calls_>>
    /\ UNCHANGED <<guardVars, mainVars>>

DetectHazards ==
    /\ exKind = "body"
    /\ exPc = "input"
    /\ hazards' = detectHazards(exInput)
    /\ exPc' = "detected"
    /\ UNCHANGED <<exKind, exInput, axioms, effects, functions_, ignoreFilter, ignored, calls_>>
    /\ UNCHANGED <<guardVars, mainVars>>

HazardsToAxioms ==
    /\ exKind = "body"
    /\ exPc = "detected"
    /\ axioms' = HazardAxioms(exInput.info, hazards)
    /\ exPc' = "done"
    /\ UNCHANGED <<exKind, exInput, hazards, effects, functions_, ignoreFilter, ignored, calls_>>
    /\ UNCHANGED <<guardVars, mainVars>>

DetectEffects ==
    /\ exKind = "effects"
    /\ exPc = "input"
    /\ effects' = detectEffects(exInput)
    /\ exPc' = "detected"
    /\ UNCHANGED <<exKind, exInput, axioms, hazards, functions_, ignoreFilter, ignored, calls_>>
    /\ UNCHANGED <<guardVars, mainVars>>

EffectsToAxioms ==
    /\ exKind = "effects"
    /\ exPc = "detected"
    /\ axioms' = EffectAxioms(exInput.info, effects)
    /\ exPc' = "done"
    /\ UNCHANGED <<exKind, exInput, hazards, effects, functions_, ignoreFilter, ignored, calls_>>
    /\ UNCHANGED <<guardVars, mainVars>>

ClassRun ==
    /\ exKind = "class"
    /\ exPc = "input"
    /\ axioms' = ClassAxioms(exInput)
    /\ exPc' = "done"
    /\ UNCHANGED <<exKind, exInput, hazards, effects, functions_, ignoreFilter, ignored, calls_>>
    /\ UNCHANGED <<guardVars, mainVars>>

EnumRun ==
    /\ exKind = "enum"
    /\ exPc = "input"
    /\ axioms' = EnumAxioms(exInput)
    /\ exPc' = "done"
    /\ UNCHANGED <<exKind, exInput, hazards, effects, functions_, ignoreFilter, ignored, calls_>>
    /\ UNCHANGED <<guardVars, mainVars>>

StaticAssertRun ==
    /\ exKind = "static_assert"
    /\ exPc = "input"
    /\ axioms' = StaticAssertAxioms(exInput)
    /\ exPc' = "done"
    /\ UNCHANGED <<exKind, exInput, hazards, effects, functions_, ignoreFilter, ignored, calls_>>
    /\ UNCHANGED <<guardVars, mainVars>>

ConceptRun ==
    /\ exKind = "concept"
    /\ exPc = "input"
    /\ axioms' = ConceptAxioms(exInput)
    /\ exPc' = "done"
    /\ UNCHANGED <<exKind, exInput, hazards, effects, functions_, ignoreFilter, ignored, calls_>>
    /\ UNCHANGED <<guardVars, mainVars>>

TypeAliasRun ==
    /\ exKind = "alias"
    /\ exPc = "input"
    /\ axioms' = TypeAliasAxioms(exInput)
    /\ exPc' = "done"
    /\ UNCHANGED <<exKind, exInput, hazards, effects, functions_, ignoreFilter, ignored, calls_>>
    /\ UNCHANGED <<guardVars, mainVars>>

\* the copy the pipeline runs
CreateMacroAxioms ==
    /\ exKind = "macro"
    /\ exPc = "input"
    /\ axioms' = createMacroAxioms(exInput)
    /\ exPc' = "created"
    /\ UNCHANGED <<exKind, exInput, hazards, effects, functions_, ignoreFilter, ignored, calls_>>
    /\ UNCHANGED <<guardVars, mainVars>>

\* the library function
ExtractMacroAxioms ==
    /\ exKind = "macro"
    /\ exPc = "input"
    /\ axioms' = extractMacroAxioms(exInput)
    /\ exPc' = "extracted"
    /\ UNCHANGED <<exKind, exInput, hazards, effects, functions_, ignoreFilter, ignored, calls_>>
    /\ UNCHANGED <<guardVars, mainVars>>

TestModeRun ==
    /\ exKind = "test"
    /\ exPc = "input"
    /\ axioms' = toAxioms(extractAssertions(exInput))
    /\ exPc' = "done"
    /\ UNCHANGED <<exKind, exInput, hazards, effects, functions_, ignoreFilter, ignored, calls_>>
    /\ UNCHANGED <<guardVars, mainVars>>

ExtractFunctions ==
    /\ exKind = "unit"
    /\ exPc = "input"
    /\ functions_' = extractFunctions(exInput)
    /\ exPc' = "done"
    /\ UNCHANGED <<exKind, exInput, axioms, hazards, effects, ignoreFilter, ignored, calls_>>
    /\ UNCHANGED <<guardVars, mainVars>>

LoadFromFile ==
    /\ exKind = "ignore"
    /\ exPc = "input"
    /\ ignoreFilter' = loadFromFile(NewIgnoreFilter, exInput.lines)
    /\ exPc' = "loaded"
    /\ UNCHANGED <<exKind, exInput, axioms, hazards, effects, functions_, ignored, calls_>>
    /\ UNCHANGED <<guardVars, mainVars>>

ShouldIgnorePath ==
    /\ exKind = "ignore"
    /\ exPc = "loaded"
    /\ ignored' = shouldIgnorePath(ignoreFilter, exInput.path, exInput.projectRoot,
                                   exInput.testMode)
    /\ exPc' = "done"
    /\ UNCHANGED <<exKind, exInput, axioms, hazards, effects, functions_, ignoreFilter, calls_>>
    /\ UNCHANGED <<guardVars, mainVars>>

\* one call of mergeResults: results is main's list, loopIdx the number of
\* batch results merged into it
MergeResults ==
    /\ exKind = "merge"
    /\ exPc = "input"
    /\ loopIdx < Len(exInput)
    /\ results' = mergeResults(results, exInput[loopIdx + 1])
    /\ loopIdx' = loopIdx + 1
    /\ exPc' = IF loopIdx + 1 = Len(exInput) THEN "done" ELSE "input"
    /\ UNCHANGED <<exKind, exInput, axioms, hazards, effects, functions_, ignoreFilter,
                   ignored, calls_>>
    /\ UNCHANGED <<sourceFiles, numJobs, ExtractCallGraph, mainPc, batches, threads,
                   exitCode, globalCallGraph, output>>
    /\ UNCHANGED guardVars

ExtractCalls ==
    /\ exKind = "calls"
    /\ exPc = "input"
    /\ calls_' = extractCalls(exInput)
    /\ exPc' = "done"
    /\ UNCHANGED <<exKind, exInput, axioms, hazards, effects, functions_, ignoreFilter,
                   ignored>>
    /\ UNCHANGED <<guardVars, mainVars>>

NextExtract ==
    \/ ExtractConstraints
    \/ DetectHazards
    \/ HazardsToAxioms
    \/ DetectEffects
    \/ EffectsToAxioms
    \/ ClassRun
    \/ EnumRun
    \/ StaticAssertRun
    \/ ConceptRun
    \/ TypeAliasRun
    \/ CreateMacroAxioms
    \/ ExtractMacroAxioms
    \/ TestModeRun
    \/ ExtractFunctions
    \/ LoadFromFile
    \/ ShouldIgnorePath
    \/ MergeResults
    \/ ExtractCalls

SpecExtract == InitExtract /\ [][NextExtract]_vars

(***************************************************************************)
(* Properties of the extractors (SpecExtract)                              *)
(***************************************************************************)

\* the axioms of a list whose id ends with the suffix
WithSuffix(axs, suffix) == { k \in 1..Len(axs) : EndsWith(axs[k].id, suffix) }

\* C1: every axiom an extractor returns has confidence 1.0 if its source is
\* EXPLICIT and a confidence below 1.0 if its source is PATTERN.
C1_ConfidenceBySource ==
    \A k \in 1..Len(axioms) :
       /\ axioms[k].source_type = "EXPLICIT" => axioms[k].confidence = 100
       /\ axioms[k].source_type = "PATTERN" => axioms[k].confidence < 100

\* an extractor has returned axioms of both sources
C1_Witness ==
    /\ exPc # "input"
    /\ \E k \in 1..Len(axioms) : axioms[k].source_type = "EXPLICIT"
    /\ \E k \in 1..Len(axioms) : axioms[k].source_type = "PATTERN"

\* the explicit attributes of a FunctionInfo with their id suffix and type
ExplicitAttributes ==
    { <<"is_noexcept", ".noexcept", "EXCEPTION">>,
      <<"is_nodiscard", ".nodiscard", "POSTCONDITION">>,
      <<"is_const", ".const", "EFFECT">>,
      <<"is_deleted", ".deleted", "CONSTRAINT">>,
      <<"is_deprecated", ".deprecated", "ANTI_PATTERN">>,
      <<"requires_clause", ".requires", "CONSTRAINT">> }

AttributeSet(func, name) ==
    IF name = "requires_clause" THEN func.requires_clause # "" ELSE func[name]

C8_ConstevalExcludesConstexpr ==
    (exKind = "function" /\ exPc = "done") =>
        /\ (exInput.is_constexpr /\ exInput.is_consteval) =>
              /\ WithSuffix(axioms, ".consteval") # {}
              /\ WithSuffix(axioms, ".constexpr") = {}
        /\ ~(WithSuffix(axioms, ".consteval") # {} /\ WithSuffix(axioms, ".constexpr") # {})

\* extractConstraints has run on a function with both flags set
C8_Witness ==
    /\ exKind = "function" /\ exPc = "done"
    /\ exInput.is_constexpr /\ exInput.is_consteval
    /\ WithSuffix(axioms, ".consteval") # {}

\* no explicit contract attribute is set
NoExplicitAttribute(func) ==
    /\ ~func.is_noexcept /\ ~func.is_nodiscard /\ ~func.is_const /\ ~func.is_deleted
    /\ ~func.is_constexpr /\ ~func.is_consteval /\ ~func.is_deprecated
    /\ func.requires_clause = ""

\* every boolean flag of the FunctionInfo is false and it has no requires clause
AllFlagsFalse(func) ==
    /\ NoExplicitAttribute(func)
    /\ ~func.is_template /\ ~func.is_variadic_template

\* C9 as stated: with all boolean flags false and no requires clause the
\* result is empty, whatever the signature is.
C9_EmptyWithoutAttributes ==
    (exKind = "function" /\ exPc = "done" /\ AllFlagsFalse(exInput)) =>
        axioms = <<>>

\* a heuristic of extractConstraints fires on the function
HeuristicFires(func) ==
    LET r == analyzeReturnType(func.signature)
    IN  \/ r.is_optional \/ r.is_bool \/ r.is_expected
        \/ (r.is_pointer /\ ~r.is_void)
        \/ func.is_template

\* C9 amended: with no explicit attribute set the result holds no EXPLICIT
\* axiom, only PATTERN axioms of the return-type and template heuristics; it
\* is empty exactly when none of these heuristics fires.
C9_OnlyHeuristicsWithoutAttributes ==
    (exKind = "function" /\ exPc = "done" /\ NoExplicitAttribute(exInput)) =>
        /\ \A k \in 1..Len(axioms) : axioms[k].source_type = "PATTERN"
        /\ (axioms = <<>>) <=> ~HeuristicFires(exInput)

\* a function without attributes and templates whose bool return type yields
\* an axiom
C9_Witness ==
    /\ exKind = "function" /\ exPc = "done" /\ AllFlagsFalse(exInput)
    /\ exInput.signature = "bool ok()"
    /\ Len(axioms) = 1 /\ EndsWith(axioms[1].id, ".postcond.bool_result")

\* a literal of any kind with a non-zero value
LiteralKinds ==
    { "IntegerLiteral", "FloatingLiteral", "CharacterLiteral", "CXXBoolLiteralExpr" }

IsNonZeroLiteral(e) ==
    LET lit == IgnoreParenImpCasts(e)
    IN  lit.kind \in LiteralKinds /\ lit.value # 0

DivisionHazardsAt(line) ==
    { k \in 1..Len(hazards) : hazards[k].type = "DIVISION" /\ hazards[k].line = line }

\* C10 as stated: a division or modulo whose divisor is a non-zero literal of
\* any kind (under parentheses and implicit casts) yields no DIVISION hazard,
\* and every other division or modulo yields exactly one.
C10_LiteralDivisorElided ==
    (exKind = "body" /\ exPc # "input" /\ exInput.hasBody) =>
        \A k \in 1..Len(exInput.body) :
           LET n == exInput.body[k]
           IN  (n.node = "BinaryOperator" /\ n.opcode \in {"BO_Div", "BO_Rem"}) =>
                   Cardinality(DivisionHazardsAt(n.line))
                       = IF IsNonZeroLiteral(n.rhs) THEN 0 ELSE 1

ArrayHazardsAt(line) ==
    { k \in 1..Len(hazards) : hazards[k].type = "ARRAY_ACCESS" /\ hazards[k].line = line }

\* C11: every array subscript expression of a function body yields exactly
\* one ARRAY_ACCESS hazard, whose operand is the text of the index, whatever
\* the index is (a literal included).
C11_SubscriptAlwaysHazard ==
    (exKind = "body" /\ exPc # "input" /\ exInput.hasBody) =>
        \A k \in 1..Len(exInput.body) :
           LET n == exInput.body[k]
           IN  n.node = "ArraySubscriptExpr" =>
                   /\ Cardinality(ArrayHazardsAt(n.line)) = 1
                   /\ \A h \in ArrayHazardsAt(n.line) :
                          hazards[h].operand = getExprText(n.rhs)

\* the detector has run on a body that subscripts with a non-zero integer
\* literal and divides by one: the subscript is reported, the division not
C11_Witness ==
    /\ exKind = "body" /\ exPc = "detected" /\ exInput.hasBody
    /\ Len(exInput.body) = 2
    /\ exInput.body[1].node = "ArraySubscriptExpr"
    /\ exInput.body[1].rhs = Lit("IntegerLiteral", 2, "2")
    /\ exInput.body[2].node = "BinaryOperator"
    /\ exInput.body[2].opcode = "BO_Div"
    /\ exInput.body[2].rhs = Lit("IntegerLiteral", 2, "2")
    /\ Len(hazards) = 1 /\ hazards[1].type = "ARRAY_ACCESS"

\* the positions in the body of the call sites of a callee
CallSitesOf(stmts, qname) ==
    { i \in 1..Len(stmts) : /\ stmts[i].stmt \in {"CXXMemberCallExpr", "CallExpr"}
                            /\ stmts[i].qualified_name = qname }

\* the callees of a body
Callees(stmts) ==
    { stmts[i].qualified_name :
        i \in { j \in 1..Len(stmts) : stmts[j].stmt \in {"CXXMemberCallExpr", "CallExpr"} } }

\* the CALL_FREQUENCY effects for a callee
FrequencyEffectsOf(qname) ==
    { k \in 1..Len(effects) : effects[k].kind = "CALL_FREQUENCY" /\ effects[k].target = qname }

\* nodes that only wrap the value of their operand
ValueWrappers ==
    { "ImplicitCastExpr", "ParenExpr", "ExprWithCleanups", "CXXBindTemporaryExpr",
      "MaterializeTemporaryExpr" }

\* the result of the call is the initializer of a variable declaration or
\* the right-hand side of an assignment
RECURSIVE ResultStored(_)
ResultStored(parents) ==
    IF parents = <<>> THEN FALSE
    ELSE IF parents[1].kind \in ValueWrappers THEN ResultStored(Tail(parents))
    ELSE \/ parents[1].kind = "VarDecl"
         \/ /\ parents[1].kind = "BinaryOperator"
            /\ parents[1].opcode \in AssignmentOps
            /\ parents[1].side = "rhs"

\* C12 as stated: detectEffects returns exactly one CALL_FREQUENCY effect per
\* distinct callee, whose call_count is the number of call sites of the callee
\* and whose is_cached is true if and only if there is exactly one call site
\* and the result of that call is stored by a variable declaration or an
\* assignment.
C12_OneFrequencyEffectPerCallee ==
    (exKind = "effects" /\ exPc # "input" /\ exInput.hasBody) =>
        /\ \A k \in 1..Len(effects) :
              effects[k].kind = "CALL_FREQUENCY" => effects[k].target \in Callees(exInput.stmts)
        /\ \A q \in Callees(exInput.stmts) :
              LET sites == CallSitesOf(exInput.stmts, q)
              IN  /\ Cardinality(FrequencyEffectsOf(q)) = 1
                  /\ \A k \in FrequencyEffectsOf(q) :
                        /\ effects[k].call_count = Cardinality(sites)
                        /\ effects[k].is_cached <=>
                              /\ Cardinality(sites) = 1
                              /\ \A i \in sites : ResultStored(exInput.stmts[i].parents)

\* the lines of the loop headers the visitor records
RecordedLoopLines(stmts) ==
    { stmts[i].line :
        i \in { j \in 1..Len(stmts) : stmts[j].stmt \in {"ForStmt", "WhileStmt", "CXXForRangeStmt"} } }

C14_CallInLoopNotAtStart ==
    (exKind = "effects" /\ exPc # "input" /\ exInput.hasBody) =>
        \A i \in 1..Len(exInput.stmts) :
           LET st == exInput.stmts[i]
           IN  (st.stmt \in {"CXXMemberCallExpr", "CallExpr"} /\ st.loop # 0) =>
                   \A k \in FrequencyEffectsOf(st.qualified_name) :
                      ~effects[k].occurs_at_start

\* C15: extractMacroAxioms returns exactly one axiom with id suffix
\* .macro_definition for a function-like macro, whatever its body and its
\* other flags are, and no axiom with that suffix for an object-like macro.
C15_DefinitionAxiomIffFunctionLike ==
    (exKind = "macro" /\ exPc = "extracted") =>
        Cardinality(WithSuffix(axioms, ".macro_definition"))
            = IF exInput.is_function_like THEN 1 ELSE 0

\* extractMacroAxioms has run on a function-like macro whose body has no
\* hazard and no semantic pattern: the definition axiom is all it returns
C15_Witness ==
    /\ exKind = "macro" /\ exPc = "extracted"
    /\ exInput.is_function_like /\ exInput.body = "x + 1"
    /\ Len(axioms) = 1 /\ axioms[1].id = "M.macro_definition"

\* the FunctionInfos returned for the entity at position e of the unit
InfosOf(e) == { k \in 1..Len(functions_) : functions_[k].name = EntityNames[e] }

\* C20 as stated: extractFunctions emits exactly one FunctionInfo per function
\* template of user code, whatever the number of its redeclarations,
\* instantiations and specializations is, and exactly one per non-template,
\* non-implicit function outside the system headers.
C20_OneInfoPerFunction ==
    (exKind = "unit" /\ exPc = "done") =>
        \A e \in 1..Len(exInput.entities) :
           LET ent == exInput.entities[e]
           IN  (~ent.system /\ ~ent.implicit) => Cardinality(InfosOf(e)) = 1

(***************************************************************************)
(* GuardAnalyzer.cpp: GuardChecker                                         *)
(*                                                                         *)
(* A condition is an expression as above; a BinaryOperator has its two     *)
(* operands in sub, a cast its cast kind.  A null Expr* is NoExpr.         *)
(***************************************************************************)

\* GuardChecker::getConditionText: as getExprText, at most 200 characters
getConditionText(cond) ==
    IF cond = NoExpr THEN "" ELSE SubSeq(cond.src, 1, Min(cond.lastTok, 200))

isNullLiteral(expr0) ==
    LET expr == IgnoreParenImpCasts(expr0)
    IN  IF expr.kind = "CXXNullPtrLiteralExpr" THEN TRUE
        ELSE IF expr.kind = "IntegerLiteral" THEN expr.value = 0
        ELSE getConditionText(expr) \in {"NULL", "nullptr"}

isZeroLiteral(expr0) ==
    LET expr == IgnoreParenImpCasts(expr0)
    IN  IF expr.kind = "IntegerLiteral" THEN expr.value = 0
        ELSE IF expr.kind = "FloatingLiteral" THEN expr.value = 0
        ELSE FALSE

checkBinaryOp(binOp, type, operand) ==
    LET opcode == binOp.opcode
        lhs == binOp.sub[1]
        rhs == binOp.sub[2]
        lhsText == getConditionText(lhs)
        rhsText == getConditionText(rhs)
    IN  IF /\ type = "POINTER_DEREF" /\ opcode = "BO_NE"
           /\ \/ Contains(lhsText, operand) /\ isNullLiteral(rhs)
              \/ Contains(rhsText, operand) /\ isNullLiteral(lhs)
        THEN TRUE
        ELSE IF /\ type = "DIVISION" /\ opcode = "BO_NE"
                /\ \/ Contains(lhsText, operand) /\ isZeroLiteral(rhs)
                   \/ Contains(rhsText, operand) /\ isZeroLiteral(lhs)
        THEN TRUE
        ELSE IF /\ type = "ARRAY_ACCESS"
                /\ \/ opcode \in {"BO_LT", "BO_LE"} /\ Contains(lhsText, operand)
                   \/ opcode \in {"BO_GT", "BO_GE"} /\ Contains(rhsText, operand)
        THEN TRUE
        ELSE FALSE

\* The tests in the order of the code: a BinaryOperator of any opcode is
\* answered by checkBinaryOp, before the logical-AND test is reached.
RECURSIVE checkCondition(_, _, _)
checkCondition(cond0, type, operand) ==
    LET cond == IgnoreParenImpCasts(cond0)
    IN  IF cond.kind = "BinaryOperator"
        THEN checkBinaryOp(cond, type, operand)
        ELSE IF cond.kind = "UnaryOperator" /\ cond.opcode = "UO_LNot"
        THEN FALSE
        ELSE IF /\ cond.kind = "ImplicitCastExpr"
                /\ cond.castKind = "CK_PointerToBoolean"
                /\ Contains(getConditionText(cond), operand)
                /\ type = "POINTER_DEREF"
        THEN TRUE
        ELSE IF cond.kind = "BinaryOperator" /\ cond.opcode = "BO_LAnd"
        THEN \/ checkCondition(cond.sub[1], type, operand)
             \/ checkCondition(cond.sub[2], type, operand)
        ELSE FALSE

\* a negation that names the pointer is taken for a null check
isGuardForNegated(cond, hazard) ==
    IF cond = NoExpr THEN FALSE
    ELSE LET c == IgnoreParenImpCasts(cond)
         IN  IF c.kind = "UnaryOperator"
             THEN hazard.type = "POINTER_DEREF"
                  /\ Contains(getConditionText(c), hazard.operand)
             ELSE checkCondition(cond, hazard.type, hazard.operand)

isGuardFor(cond, hazard) ==
    IF cond = NoExpr THEN FALSE
    ELSE checkCondition(cond, hazard.type, hazard.operand)

(***************************************************************************)
(* GuardAnalyzer.cpp: GuardAnalyzerImpl                                    *)
(*                                                                         *)
(* A CFG is the sequence of its blocks in iteration order; the id of a     *)
(* block is its position.  A block has its predecessors in order (0 is a   *)
(* null predecessor), its terminator condition (NoExpr if it has none) and *)
(* the lines its statements begin on.                                      *)
(***************************************************************************)

CFGBlock(preds, term, lines) == [ preds |-> preds, term |-> term, lines |-> lines ]

NullCFG == [ isNull |-> TRUE, blocks |-> <<>>, entry |-> 0 ]

MakeCFG(blocks, entry) == [ isNull |-> FALSE, blocks |-> blocks, entry |-> entry ]

\* the first block holding a statement that begins on the hazard's line;
\* 0 (a null CFGBlock*) if there is none
FindHazardBlock(cfg, hazard) ==
    LET hits == { b \in 1..Len(cfg.blocks) :
                    \E k \in 1..Len(cfg.blocks[b].lines) :
                        cfg.blocks[b].lines[k] = hazard.line }
    IN  IF hits = {} THEN 0 ELSE CHOOSE b \in hits : \A c \in hits : b <= c

\* the recursion limits of the two walks
CheckWalkLimit == 10

FindWalkLimit == 10

\* the walk does not test which terminator it found
TerminatorPresent(cfg, pred, hazard) == cfg.blocks[pred].term # NoExpr

\* checkPredecessorsImpl: the predecessor's terminator condition guards
TerminatorGuards(cfg, pred, hazard) ==
    LET term == cfg.blocks[pred].term
    IN  term # NoExpr /\ isGuardFor(term, hazard)

\* the recursion without its limit
MayRecurseAlways(visited) == TRUE

\* checkPredecessorsImpl: the walk may recurse into the predecessor
MayRecurse(visited) == Cardinality(visited) < CheckWalkLimit

\* findGuardImpl: the same two tests
FindTerminatorGuards(cfg, pred, hazard) ==
    LET term == cfg.blocks[pred].term
    IN  term # NoExpr /\ isGuardFor(term, hazard)

\* a walk of findGuardImpl that gives up earlier than the other one
FindMayRecurseShallow(visited) == Cardinality(visited) < FindWalkLimit - 1

FindMayRecurse(visited) == Cardinality(visited) < FindWalkLimit

\* a frame of the recursion: the block and the position of its loop over
\* the predecessors (0: the call has not passed the visited test yet)
Frame(block) == [ block |-> block, i |-> 0 ]

Top(stack) == stack[Len(stack)]

\* the top frame moves to its next predecessor
Advance(stack) ==
    [ stack EXCEPT ![Len(stack)] = [ @ EXCEPT !.i = @ + 1 ] ]

\* the top frame returns false (nullopt): its caller moves on
ReturnToCaller(stack) ==
    IF Len(stack) = 1 THEN <<>>
    ELSE Advance(SubSeq(stack, 1, Len(stack) - 1))

NoCall == [ cond |-> NoExpr, answer |-> FALSE ]

NoResult == [ found |-> FALSE, text |-> "" ]

Result(found, text) == [ found |-> found, text |-> text ]

(***************************************************************************)
(* SpecGuard: the inputs                                                   *)
(***************************************************************************)

\* the longest straight-line CFG
MaxChain == 12

\* the branch conditions: b != 0, 0 != b, b != 1, b == 0, b != 0.0,
\* p != nullptr, p, !p, (!p), !(p != nullptr), i < n, n > i, i > n,
\* b != 0 && x, x && b != 0, (b != 0), x, p != nullptr && i < n, x && y
Conds ==
    { NeZero,
      BinExpr("BO_NE", "!=", Zero, Rv("b")),
      BinExpr("BO_NE", "!=", Rv("b"), Lit("IntegerLiteral", 1, "1")),
      BinExpr("BO_EQ", "==", Rv("b"), Zero),
      BinExpr("BO_NE", "!=", Rv("b"), Lit("FloatingLiteral", 0, "0.0")),
      NeNullptr,
      PtrToBool("p"),
      LNot(PtrToBool("p")),
      Paren(LNot(PtrToBool("p"))),
      LNot(Paren(NeNullptr)),
      LessThan,
      BinExpr("BO_GT", ">", Rv("n"), Rv("i")),
      BinExpr("BO_GT", ">", Rv("i"), Rv("n")),
      BinExpr("BO_LAnd", "&&", NeZero, Rv("x")),
      BinExpr("BO_LAnd", "&&", Rv("x"), NeZero),
      Paren(NeZero),
      Rv("x"),
      BinExpr("BO_LAnd", "&&", NeNullptr, LessThan),
      BinExpr("BO_LAnd", "&&", Rv("x"), Rv("y")) }

\* the hazards of a / b, *p, a[i] and reinterpret_cast<T*>(p) on line 1
GuardHazards ==
    { MakeHazard("DIVISION", "a / b", "b", 1),
      MakeHazard("POINTER_DEREF", "*p", "p", 1),
      MakeHazard("ARRAY_ACCESS", "a[i]", "i", 1),
      MakeHazard("CAST", "reinterpret_cast<T*>(p)", "p", 1) }

\* n blocks in a row, the hazard in block 1 and the entry in block n, the
\* condition c ending block g
Chain(n, g, c) ==
    MakeCFG([ k \in 1..n |->
                CFGBlock(IF k < n THEN <<k + 1>> ELSE <<>>,
                         IF k = g THEN c ELSE NoExpr, <<k>>) ], n)

\* if (x) { if (c) g(); } hazard;
Nested(c) ==
    MakeCFG(<< CFGBlock(<<2, 3, 4>>, NoExpr, <<1>>),
               CFGBlock(<<3>>, NoExpr, <<2>>),
               CFGBlock(<<4>>, c, <<3>>),
               CFGBlock(<<5>>, Rv("x"), <<4>>),
               CFGBlock(<<>>, NoExpr, <<5>>) >>, 5)

\* two branches that end in the conditions c and d join before the hazard
Diamond(c, d) ==
    MakeCFG(<< CFGBlock(<<2, 3>>, NoExpr, <<1>>),
               CFGBlock(<<4>>, c, <<2>>),
               CFGBlock(<<4>>, d, <<3>>),
               CFGBlock(<<>>, Rv("x"), <<4>>) >>, 4)

\* while (c) { hazard; }
Loop(c) ==
    MakeCFG(<< CFGBlock(<<2>>, NoExpr, <<1>>),
               CFGBlock(<<3, 1>>, c, <<2>>),
               CFGBlock(<<>>, NoExpr, <<3>>) >>, 3)

\* do { hazard; } while (c);
SelfLoop(c) ==
    MakeCFG(<< CFGBlock(<<2, 1>>, c, <<1>>),
               CFGBlock(<<>>, NoExpr, <<2>>) >>, 2)

\* a loop with two entries
Irreducible(c) ==
    MakeCFG(<< CFGBlock(<<2, 3>>, NoExpr, <<1>>),
               CFGBlock(<<3, 4>>, NoExpr, <<2>>),
               CFGBlock(<<2, 4>>, NoExpr, <<3>>),
               CFGBlock(<<>>, c, <<4>>) >>, 4)

\* a null predecessor (an unreachable edge) before the real one
NullPred(c) ==
    MakeCFG(<< CFGBlock(<<0, 2>>, NoExpr, <<1>>),
               CFGBlock(<<>>, c, <<2>>) >>, 2)

\* no statement begins on the hazard's line
NoHazardLine(c) ==
    MakeCFG(<< CFGBlock(<<2>>, NoExpr, <<>>),
               CFGBlock(<<>>, c, <<2>>) >>, 2)

\* if (c) { y = 0; for (; i < n; ++i) { hazard; if (x) ...; if (x) ...; } }
\* with n blocks in the loop body behind the hazard: block 1 holds the
\* hazard, block 2 is the loop header, reached from the end of the body
\* (block 3) and from the block before the loop (n + 3), which follows the
\* block of the condition c (n + 4)
GuardedLoop(c, n) ==
    MakeCFG([ k \in 1..(n + 4) |->
                IF k = 1 THEN CFGBlock(<<2>>, NoExpr, <<1>>)
                ELSE IF k = 2 THEN CFGBlock(<<3, n + 3>>, LessThan, <<2>>)
                ELSE IF k < n + 2 THEN CFGBlock(<<k + 1>>, Rv("x"), <<k>>)
                ELSE IF k = n + 2 THEN CFGBlock(<<1>>, Rv("x"), <<k>>)
                ELSE IF k = n + 3 THEN CFGBlock(<<n + 4>>, NoExpr, <<k>>)
                ELSE CFGBlock(<<>>, c, <<k>>) ], n + 4)

CFGs ==
    {NullCFG}
    \cup { Chain(n, g, c) : n \in 1..MaxChain, g \in 0..MaxChain,
                            c \in {NeZero, BinExpr("BO_LAnd", "&&", Rv("x"), NeZero)} }
    \cup UNION { { Nested(c), Diamond(c, NoExpr), Diamond(c, c), Loop(c), SelfLoop(c),
                   Irreducible(c), NullPred(c), NoHazardLine(c),
                   GuardedLoop(c, 2), GuardedLoop(c, 8) } :
                 c \in Conds \cup {NoExpr} }

(***************************************************************************)
(* SpecGuard: one call of isGuarded or findGuard, a step of it per         *)
(* iteration of the predecessor loop                                       *)
(***************************************************************************)

InitGuard ==
    /\ gMode \in {"isGuarded", "findGuard"}
    /\ gCfg \in CFGs
    /\ gHazard \in GuardHazards
    /\ gPc = "input"
    /\ gStack = <<>>
    /\ gVisited = {}
    /\ gEntered = <<>>
    /\ gCall = NoCall
    /\ gResult = NoResult
    /\ gOther = <<>>
    /\ ExtractIdle
    /\ MainIdle

isGuarded ==
    /\ gMode = "isGuarded"
    /\ gPc = "input"
    /\ LET hazardBlock == IF gCfg.isNull THEN 0 ELSE FindHazardBlock(gCfg, gHazard)
       IN  IF hazardBlock = 0
           THEN /\ gPc' = "done"
                /\ gResult' = Result(FALSE, "")
                /\ gStack' = <<>>
           ELSE /\ gPc' = "walk"
                /\ gStack' = <<Frame(hazardBlock)>>
                /\ UNCHANGED gResult
    /\ UNCHANGED <<gMode, gCfg, gHazard, gVisited, gEntered, gCall>>
    /\ UNCHANGED <<gOther, exVars, mainVars>>

\* checkPredecessorsImpl is called: the visited test and the insertion
CheckEnter ==
    /\ gMode = "isGuarded"
    /\ gPc = "walk"
    /\ Top(gStack).i = 0
    /\ LET block == Top(gStack).block
       IN  IF block \in gVisited
           THEN /\ gStack' = ReturnToCaller(gStack)
                /\ UNCHANGED <<gVisited, gEntered>>
           ELSE /\ gVisited' = gVisited \cup {block}
                /\ gEntered' = Append(gEntered, block)
                /\ gStack' = Advance(gStack)
    /\ UNCHANGED <<gMode, gCfg, gHazard, gPc, gCall, gResult>>
    /\ UNCHANGED <<gOther, exVars, mainVars>>

\* one iteration of the loop over the predecessors
CheckPred ==
    /\ gMode = "isGuarded"
    /\ gPc = "walk"
    /\ Top(gStack).i \in 1..Len(gCfg.blocks[Top(gStack).block].preds)
    /\ LET pred == gCfg.blocks[Top(gStack).block].preds[Top(gStack).i]
       IN  IF pred = 0
           THEN /\ gStack' = Advance(gStack)
                /\ UNCHANGED <<gPc, gCall, gResult>>
           ELSE /\ gCall' = IF gCfg.blocks[pred].term # NoExpr
                            THEN [ cond |-> gCfg.blocks[pred].term,
                                   answer |-> isGuardFor(gCfg.blocks[pred].term, gHazard) ]
                            ELSE gCall
                /\ IF TerminatorGuards(gCfg, pred, gHazard)
                   THEN /\ gPc' = "done"
                        /\ gResult' = Result(TRUE, "")
                        /\ gStack' = <<>>
                   ELSE /\ gStack' = IF MayRecurse(gVisited)
                                     THEN Append(gStack, Frame(pred))
                                     ELSE Advance(gStack)
                        /\ UNCHANGED <<gPc, gResult>>
    /\ UNCHANGED <<gMode, gCfg, gHazard, gVisited, gEntered>>
    /\ UNCHANGED <<gOther, exVars, mainVars>>

\* the loop is over: return false
CheckReturn ==
    /\ gMode = "isGuarded"
    /\ gPc = "walk"
    /\ Top(gStack).i > Len(gCfg.blocks[Top(gStack).block].preds)
    /\ gStack' = ReturnToCaller(gStack)
    /\ gPc' = IF Len(gStack) = 1 THEN "done" ELSE "walk"
    /\ gResult' = IF Len(gStack) = 1 THEN Result(FALSE, "") ELSE gResult
    /\ UNCHANGED <<gMode, gCfg, gHazard, gVisited, gEntered, gCall>>
    /\ UNCHANGED <<gOther, exVars, mainVars>>

findGuard ==
    /\ gMode = "findGuard"
    /\ gPc = "input"
    /\ LET hazardBlock == IF gCfg.isNull THEN 0 ELSE FindHazardBlock(gCfg, gHazard)
       IN  IF hazardBlock = 0
           THEN /\ gPc' = "done"
                /\ gResult' = Result(FALSE, "")
                /\ gStack' = <<>>
           ELSE /\ gPc' = "walk"
                /\ gStack' = <<Frame(hazardBlock)>>
                /\ UNCHANGED gResult
    /\ UNCHANGED <<gMode, gCfg, gHazard, gVisited, gEntered, gCall>>
    /\ UNCHANGED <<gOther, exVars, mainVars>>

\* findGuardImpl is called: the visited test and the insertion
FindEnter ==
    /\ gMode = "findGuard"
    /\ gPc = "walk"
    /\ Top(gStack).i = 0
    /\ LET block == Top(gStack).block
       IN  IF block \in gVisited
           THEN /\ gStack' = ReturnToCaller(gStack)
                /\ UNCHANGED <<gVisited, gEntered>>
           ELSE /\ gVisited' = gVisited \cup {block}
                /\ gEntered' = Append(gEntered, block)
                /\ gStack' = Advance(gStack)
    /\ UNCHANGED <<gMode, gCfg, gHazard, gPc, gCall, gResult>>
    /\ UNCHANGED <<gOther, exVars, mainVars>>

FindPred ==
    /\ gMode = "findGuard"
    /\ gPc = "walk"
    /\ Top(gStack).i \in 1..Len(gCfg.blocks[Top(gStack).block].preds)
    /\ LET pred == gCfg.blocks[Top(gStack).block].preds[Top(gStack).i]
       IN  IF pred = 0
           THEN /\ gStack' = Advance(gStack)
                /\ UNCHANGED <<gPc, gCall, gResult>>
           ELSE /\ gCall' = IF gCfg.blocks[pred].term # NoExpr
                            THEN [ cond |-> gCfg.blocks[pred].term,
                                   answer |-> isGuardFor(gCfg.blocks[pred].term, gHazard) ]
                            ELSE gCall
                /\ IF FindTerminatorGuards(gCfg, pred, gHazard)
                   THEN /\ gPc' = "done"
                        /\ gResult' = Result(TRUE, getConditionText(gCfg.blocks[pred].term))
                        /\ gStack' = <<>>
                   ELSE /\ gStack' = IF FindMayRecurse(gVisited)
                                     THEN Append(gStack, Frame(pred))
                                     ELSE Advance(gStack)
                        /\ UNCHANGED <<gPc, gResult>>
    /\ UNCHANGED <<gMode, gCfg, gHazard, gVisited, gEntered>>
    /\ UNCHANGED <<gOther, exVars, mainVars>>

\* the loop is over: return nullopt
FindReturn ==
    /\ gMode = "findGuard"
    /\ gPc = "walk"
    /\ Top(gStack).i > Len(gCfg.blocks[Top(gStack).block].preds)
    /\ gStack' = ReturnToCaller(gStack)
    /\ gPc' = IF Len(gStack) = 1 THEN "done" ELSE "walk"
    /\ gResult' = IF Len(gStack) = 1 THEN Result(FALSE, "") ELSE gResult
    /\ UNCHANGED <<gMode, gCfg, gHazard, gVisited, gEntered, gCall>>
    /\ UNCHANGED <<gOther, exVars, mainVars>>

\* the caller has the answer of one function and calls the other one with
\* the same hazard and CFG; the analyzer keeps nothing between two calls
SecondCall ==
    /\ gMode \in {"isGuarded", "findGuard"}
    /\ gPc = "done"
    /\ gOther = <<>>
    /\ gOther' = <<gResult>>
    /\ gMode' = IF gMode = "isGuarded" THEN "findGuard" ELSE "isGuarded"
    /\ gPc' = "input"
    /\ gStack' = <<>>
    /\ gVisited' = {}
    /\ gEntered' = <<>>
    /\ gCall' = NoCall
    /\ gResult' = NoResult
    /\ UNCHANGED <<gCfg, gHazard>>
    /\ UNCHANGED <<exVars, mainVars>>

NextGuard ==
    \/ isGuarded
    \/ CheckEnter
    \/ CheckPred
    \/ CheckReturn
    \/ findGuard
    \/ FindEnter
    \/ FindPred
    \/ FindReturn
    \/ SecondCall

SpecGuard == InitGuard /\ [][NextGuard]_vars

\* a call that can take a step takes it
SpecGuardFair == SpecGuard /\ WF_vars(NextGuard)

(***************************************************************************)
(* Properties of GuardAnalyzer (SpecGuard)                                 *)
(***************************************************************************)

\* the non-null predecessors of a block
PredSet(cfg, b) ==
    { cfg.blocks[b].preds[k] : k \in 1..Len(cfg.blocks[b].preds) } \ {0}

\* the blocks reached from a set along predecessor edges inside ok
RECURSIVE PredClosure(_, _, _)
PredClosure(cfg, set, ok) ==
    LET next == set \cup ((UNION { PredSet(cfg, b) : b \in set }) \cap ok)
    IN  IF next = set THEN set ELSE PredClosure(cfg, next, ok)

AllBlocks(cfg) == 1..Len(cfg.blocks)

TransitivePreds(cfg, b) == PredClosure(cfg, PredSet(cfg, b), AllBlocks(cfg))

\* the blocks whose terminator condition is a guard for the hazard
GuardBlocks(cfg, hazard) ==
    { b \in AllBlocks(cfg) : isGuardFor(cfg.blocks[b].term, hazard) }

\* some path from the entry to block hb passes no block of GuardBlocks
SomePathUnguarded(cfg, hb, hazard) ==
    /\ hb \notin GuardBlocks(cfg, hazard)
    /\ cfg.entry \in PredClosure(cfg, {hb}, AllBlocks(cfg) \ GuardBlocks(cfg, hazard))

HazardBlock == IF gCfg.isNull THEN 0 ELSE FindHazardBlock(gCfg, gHazard)

\* C4 as stated: isGuarded returns true only if every path from the entry to
\* the hazard's block passes a block whose terminator condition is a guard;
\* with a path that passes none it returns false.
C4_AllPathsGuarded ==
    (gMode = "isGuarded" /\ gPc = "done" /\ gResult.found) =>
        ~SomePathUnguarded(gCfg, HazardBlock, gHazard)

\* C4 amended: isGuarded returns true only if the terminator condition of
\* some transitive predecessor of the hazard's block is a guard, whether or
\* not every path passes it; when the hazard's block and its transitive
\* predecessors are at most 10 blocks it returns true exactly in that case;
\* without a CFG or a block for the hazard's line it returns false.
C4_SomePredecessorGuards ==
    (gMode = "isGuarded" /\ gPc = "done") =>
        IF HazardBlock = 0 THEN ~gResult.found
        ELSE LET tp == TransitivePreds(gCfg, HazardBlock)
                 guards == tp \cap GuardBlocks(gCfg, gHazard)
             IN  /\ gResult.found => guards # {}
                 /\ Cardinality(tp \cup {HazardBlock}) <= 10 =>
                        (gResult.found <=> guards # {})

\* isGuarded has returned true although a path from the entry reaches the
\* hazard's block without passing a guard
C4_Witness ==
    /\ gMode = "isGuarded" /\ gPc = "done" /\ gResult.found
    /\ SomePathUnguarded(gCfg, HazardBlock, gHazard)

\* C5 as stated: isGuardFor accepts A && B whenever it accepts A alone or B
\* alone for the hazard.
C5_AndIsGuardIfConjunctIs ==
    LET c == IgnoreParenImpCasts(gCall.cond)
    IN  (/\ gPc \in {"walk", "done"}
         /\ c.kind = "BinaryOperator" /\ c.opcode = "BO_LAnd"
         /\ \/ isGuardFor(c.sub[1], gHazard)
            \/ isGuardFor(c.sub[2], gHazard))
        => gCall.answer

NoDuplicates(seq) ==
    \A i, j \in 1..Len(seq) : i # j => seq[i] # seq[j]

\* C6: on every CFG the predecessor walk of isGuarded and findGuard ends,
\* passes the visited test for no block twice and never has more than 10
\* blocks in its visited set.
C6_WalkBounded ==
    /\ [](gMode \in {"isGuarded", "findGuard"} =>
            /\ NoDuplicates(gEntered)
            /\ Cardinality(gVisited) <= 10
            /\ gVisited = { gEntered[k] : k \in 1..Len(gEntered) })
    /\ <>(gPc = "done")

\* a walk over a CFG of more than 10 blocks has ended with 10 blocks visited
\* and no guard found
C6_Witness ==
    /\ gPc = "done" /\ ~gResult.found
    /\ Len(gCfg.blocks) > 10
    /\ Cardinality(gVisited) = 10

(***************************************************************************)
(* main.cpp: processBatch, mergeResults and main                           *)
(*                                                                         *)
(* A translation unit is the sequence of the function definitions the      *)
(* matcher finds in it, each with the file it is located in (the source    *)
(* file or a header), the axiom it yields and the calls of its body, and   *)
(* the macros with axioms the preprocessor pass finds in it.  c.cpp has an *)
(* error after its definitions, d.cpp one before any definition.           *)
(***************************************************************************)

\* the most source files on the command line, and the most jobs
MaxFiles == 3

MaxJobs == 3

FileNames == { "a.cpp", "b.cpp", "c.cpp", "d.cpp" }

FuncDecl(file, axiom, calls) == [ file |-> file, axiom |-> axiom, calls |-> calls ]

TranslationUnit(name) ==
    CASE name = "a.cpp" ->
           [ decls |-> << FuncDecl("a.cpp", "a.f.noexcept", <<"f->g">>) >>,
             macros |-> <<>>, parses |-> TRUE ]
      [] name = "b.cpp" ->
           [ decls |-> << FuncDecl("h.hpp", "h.inl.const", <<>>),
                          FuncDecl("b.cpp", "b.g.nodiscard", <<"g->h">>) >>,
             macros |-> << [ file_path |-> "b.cpp", axiom |-> "b.SAFE_DIV" ] >>,
             parses |-> TRUE ]
      [] name = "c.cpp" ->
           [ decls |-> << FuncDecl("h.hpp", "h.inl.const", <<>>),
                          FuncDecl("c.cpp", "c.k.noexcept", <<>>) >>,
             macros |-> <<>>, parses |-> FALSE ]
      [] OTHER ->
           [ decls |-> <<>>, macros |-> <<>>, parses |-> FALSE ]

\* the sequences of n different source files
RECURSIVE FileLists(_)
FileLists(n) ==
    IF n = 0 THEN { <<>> }
    ELSE UNION { { Append(l, f) : f \in FileNames \ { l[i] : i \in 1..Len(l) } } :
                 l \in FileLists(n - 1) }

\* numJobs: the -j option, or the hardware concurrency, or 1
ResolveJobs(NumJobs, hardware) ==
    IF NumJobs = 0 THEN (IF hardware = 0 THEN 1 ELSE hardware) ELSE NumJobs

\* a split into blocks of consecutive files
Blockwise(files, jobs) ==
    LET size == (Len(files) + jobs - 1) \div jobs
    IN  [ b \in 1..jobs |->
            SubSeq(files, Min((b - 1) * size, Len(files)) + 1, Min(b * size, Len(files))) ]

\* batches[i % numJobs].push_back(sourceFiles[i]); batch b is batches[b - 1]
RoundRobin(files, jobs) ==
    [ b \in 1..jobs |->
        LET idx == { i \in 1..Len(files) : (i - 1) % jobs = b - 1 }
        IN  [ k \in 1..Cardinality(idx) |->
                files[CHOOSE i \in idx : Cardinality({ j \in idx : j < i }) = k - 1] ] ]

NewResult(file) == [ source_file |-> file, axioms |-> <<>>, errors |-> <<>> ]

\* find or create the result of the file, then push_back the axiom
AddAxiom(rs, file, axiom) ==
    LET rs1 == IF IndexOfFile(rs, file) = 0 THEN Append(rs, NewResult(file)) ELSE rs
        k == IndexOfFile(rs1, file)
    IN  [ rs1 EXCEPT ![k].axioms = Append(@, axiom) ]

\* the next function definition of the batch at or after (f, d)
RECURSIVE SeekDecl(_, _, _)
SeekDecl(files, f, d) ==
    IF f > Len(files) THEN [ f |-> f, d |-> 0 ]
    ELSE IF d <= Len(TranslationUnit(files[f]).decls) THEN [ f |-> f, d |-> d ]
    ELSE SeekDecl(files, f + 1, 1)

\* the thread goes on with the definition at or after (f, d), or with the
\* macro pass when tool.run is over
AtDecl(th, f, d) ==
    LET pos == SeekDecl(th.files, f, d)
    IN  [ th EXCEPT !.f = pos.f, !.d = pos.d, !.c = 0,
                    !.pc = IF pos.f > Len(th.files) THEN "macros" ELSE "decl" ]

\* a call of processBatch, by a std::async thread or by main itself; with no
\* files it returns at once
NewThread(files, worker) ==
    LET th == [ files |-> files, worker |-> worker, f |-> 1, d |-> 1, c |-> 0,
                pc |-> "ready", results |-> <<>>, exitCode |-> 0,
                raced |-> FALSE, taken |-> FALSE ]
    IN  IF files = <<>> THEN th ELSE AtDecl(th, 1, 1)

CurrentDecl(th) == TranslationUnit(th.files[th.f]).decls[th.d]

\* tool.run: not 0 when a file of the batch did not parse
ToolExitCode(files) ==
    IF \E k \in 1..Len(files) : ~TranslationUnit(files[k]).parses THEN 1 ELSE 0

\* the macro pass over the batch: the axioms of each macro go to the result
\* of the macro's file
RECURSIVE AddMacros(_, _)
AddMacros(rs, macros) ==
    IF macros = <<>> THEN rs
    ELSE AddMacros(AddAxiom(rs, Head(macros).file_path, Head(macros).axiom),
                   Tail(macros))

RECURSIVE BatchMacros(_)
BatchMacros(files) ==
    IF files = <<>> THEN <<>>
    ELSE TranslationUnit(Head(files)).macros \o BatchMacros(Tail(files))

\* future.get() returns at once, whatever the thread is doing
FutureGetNoWait(th) == TRUE

\* future.get() returns when processBatch has returned
FutureGet(th) == th.pc = "ready"

\* a main that handed the exit code of the tool on to its caller
ReturnValuePassedOn(opens, code) == IF opens THEN code ELSE 1

\* what main returns: 1 when the output file cannot be opened, else 0,
\* whatever exitCode is
ReturnValue(opens, code) == IF opens THEN 0 ELSE 1

RECURSIVE TotalAxioms(_)
TotalAxioms(rs) ==
    IF rs = <<>> THEN 0 ELSE Len(Head(rs).axioms) + TotalAxioms(Tail(rs))

(***************************************************************************)
(* Spec: one run of main(), a step per callback, per half of a push_back   *)
(* on globalCallGraph, per future                                          *)
(***************************************************************************)

Init ==
    /\ sourceFiles \in UNION { FileLists(n) : n \in 0..MaxFiles }
    /\ numJobs \in { ResolveJobs(n, hw) : n \in 0..MaxJobs, hw \in 0..MaxJobs }
    /\ ExtractCallGraph \in BOOLEAN
    /\ mainPc = "start"
    /\ batches = <<>>
    /\ threads = <<>>
    /\ loopIdx = 0
    /\ results = <<>>
    /\ exitCode = 0
    /\ globalCallGraph = <<>>
    /\ output = "none"
    /\ ExtractIdle
    /\ GuardIdle

\* several jobs and several files: the files are dealt to the batches
SplitBatches ==
    /\ mainPc = "start"
    /\ numJobs > 1 /\ Len(sourceFiles) > 1
    /\ batches' = RoundRobin(sourceFiles, numJobs)
    /\ mainPc' = "launch"
    /\ loopIdx' = 1
    /\ UNCHANGED <<sourceFiles, numJobs, ExtractCallGraph, threads, results,
                   exitCode, globalCallGraph, output>>
    /\ UNCHANGED <<exVars, guardVars>>

\* one iteration of the launch loop: std::async for a batch that is not empty
LaunchTask ==
    /\ mainPc = "launch"
    /\ threads' = IF batches[loopIdx] # <<>>
                  THEN Append(threads, NewThread(batches[loopIdx], TRUE))
                  ELSE threads
    /\ loopIdx' = IF loopIdx = numJobs THEN 1 ELSE loopIdx + 1
    /\ mainPc' = IF loopIdx = numJobs THEN "collect" ELSE "launch"
    /\ UNCHANGED <<sourceFiles, numJobs, ExtractCallGraph, batches, results,
                   exitCode, globalCallGraph, output>>
    /\ UNCHANGED <<exVars, guardVars>>

\* one job or one file: main calls processBatch itself
SingleThreadedCall ==
    /\ mainPc = "start"
    /\ ~(numJobs > 1 /\ Len(sourceFiles) > 1)
    /\ threads' = << NewThread(sourceFiles, FALSE) >>
    /\ mainPc' = "single"
    /\ UNCHANGED <<sourceFiles, numJobs, ExtractCallGraph, batches, loopIdx,
                   results, exitCode, globalCallGraph, output>>
    /\ UNCHANGED <<exVars, guardVars>>

\* FunctionCallback::run on the next definition of the batch: its axiom goes
\* to the thread's own results; with --call-graph its calls are pushed next
FunctionCallbackRun ==
    /\ mainPc \in {"launch", "collect", "single"}
    /\ \E t \in 1..Len(threads) :
          /\ threads[t].pc = "decl"
          /\ LET th == threads[t]
                 decl == CurrentDecl(th)
                 th1 == [ th EXCEPT !.results = AddAxiom(@, decl.file, decl.axiom) ]
             IN  threads' = [ threads EXCEPT ![t] =
                     IF ExtractCallGraph /\ decl.calls # <<>>
                     THEN [ th1 EXCEPT !.pc = "push", !.c = 1 ]
                     ELSE AtDecl(th1, th.f, th.d + 1) ]
    /\ UNCHANGED <<sourceFiles, numJobs, ExtractCallGraph, mainPc, batches,
                   loopIdx, results, exitCode, globalCallGraph, output>>
    /\ UNCHANGED <<exVars, guardVars>>

\* globalCallGraph.push_back begins; it runs without a lock, so it races with
\* every push_back another thread is inside
PushBackBegin ==
    /\ mainPc \in {"launch", "collect", "single"}
    /\ \E t \in 1..Len(threads) :
          /\ threads[t].pc = "push"
          /\ LET others == { u \in 1..Len(threads) : u # t /\ threads[u].pc = "pushing" }
             IN  threads' = [ u \in 1..Len(threads) |->
                     IF u = t
                     THEN [ threads[u] EXCEPT !.pc = "pushing", !.raced = (others # {}) ]
                     ELSE IF u \in others
                     THEN [ threads[u] EXCEPT !.raced = TRUE ]
                     ELSE threads[u] ]
    /\ UNCHANGED <<sourceFiles, numJobs, ExtractCallGraph, mainPc, batches,
                   loopIdx, results, exitCode, globalCallGraph, output>>
    /\ UNCHANGED <<exVars, guardVars>>

\* globalCallGraph.push_back ends.  After a race the behaviour is undefined:
\* the call is appended, or it is lost, or the process dies.
PushBackEnd ==
    /\ mainPc \in {"launch", "collect", "single"}
    /\ \E t \in 1..Len(threads) :
          /\ threads[t].pc = "pushing"
          /\ LET th == threads[t]
                 decl == CurrentDecl(th)
                 th1 == [ th EXCEPT !.raced = FALSE ]
             IN  /\ threads' = [ threads EXCEPT ![t] =
                        IF th.c < Len(decl.calls)
                        THEN [ th1 EXCEPT !.pc = "push", !.c = @ + 1 ]
                        ELSE AtDecl(th1, th.f, th.d + 1) ]
                 /\ \/ /\ globalCallGraph' = Append(globalCallGraph, decl.calls[th.c])
                       /\ UNCHANGED mainPc
                    \/ /\ th.raced
                       /\ UNCHANGED <<globalCallGraph, mainPc>>
                    \/ /\ th.raced
                       /\ mainPc' = "crashed"
                       /\ UNCHANGED globalCallGraph
    /\ UNCHANGED <<sourceFiles, numJobs, ExtractCallGraph, batches, loopIdx,
                   results, exitCode, output>>
    /\ UNCHANGED <<exVars, guardVars>>

\* tool.run has returned: the exit code, the macro pass, the return of
\* processBatch
MacroPass ==
    /\ mainPc \in {"launch", "collect", "single"}
    /\ \E t \in 1..Len(threads) :
          /\ threads[t].pc = "macros"
          /\ threads' = [ threads EXCEPT ![t] =
                 [ @ EXCEPT !.exitCode = ToolExitCode(threads[t].files),
                            !.results = AddMacros(@, BatchMacros(threads[t].files)),
                            !.pc = "ready" ] ]
    /\ UNCHANGED <<sourceFiles, numJobs, ExtractCallGraph, mainPc, batches,
                   loopIdx, results, exitCode, globalCallGraph, output>>
    /\ UNCHANGED <<exVars, guardVars>>

\* one iteration of the collect loop: future.get(), then mergeResults
CollectFuture ==
    /\ mainPc = "collect"
    /\ FutureGet(threads[loopIdx])
    /\ results' = mergeResults(results, threads[loopIdx].results)
    /\ exitCode' = IF threads[loopIdx].exitCode # 0
                   THEN threads[loopIdx].exitCode ELSE exitCode
    /\ threads' = [ threads EXCEPT ![loopIdx].taken = TRUE ]
    /\ loopIdx' = loopIdx + 1
    /\ mainPc' = IF loopIdx = Len(threads) THEN "emit" ELSE "collect"
    /\ UNCHANGED <<sourceFiles, numJobs, ExtractCallGraph, batches,
                   globalCallGraph, output>>
    /\ UNCHANGED <<exVars, guardVars>>

\* processBatch has returned to main
SingleThreadedReturn ==
    /\ mainPc = "single"
    /\ threads[1].pc = "ready"
    /\ results' = threads[1].results
    /\ exitCode' = threads[1].exitCode
    /\ threads' = [ threads EXCEPT ![1].taken = TRUE ]
    /\ mainPc' = "emit"
    /\ UNCHANGED <<sourceFiles, numJobs, ExtractCallGraph, batches, loopIdx,
                   globalCallGraph, output>>
    /\ UNCHANGED <<exVars, guardVars>>

\* the JSON document; main returns 1 only when the output file cannot be
\* opened
Emit ==
    /\ mainPc = "emit"
    /\ \E opens \in BOOLEAN :
          output' = IF opens
                    THEN [ files |-> results,
                           total_axioms |-> TotalAxioms(results),
                           has_call_graph |-> ExtractCallGraph /\ globalCallGraph # <<>>,
                           call_graph |-> IF ExtractCallGraph /\ globalCallGraph # <<>>
                                          THEN globalCallGraph ELSE <<>>,
                           written |-> TRUE,
                           status |-> ReturnValue(opens, exitCode) ]
                    ELSE [ files |-> <<>>, total_axioms |-> 0,
                           has_call_graph |-> FALSE, call_graph |-> <<>>,
                           written |-> FALSE,
                           status |-> ReturnValue(opens, exitCode) ]
    /\ mainPc' = "done"
    /\ UNCHANGED <<sourceFiles, numJobs, ExtractCallGraph, batches, threads,
                   loopIdx, results, exitCode, globalCallGraph>>
    /\ UNCHANGED <<exVars, guardVars>>

Next ==
    \/ SplitBatches
    \/ LaunchTask
    \/ SingleThreadedCall
    \/ FunctionCallbackRun
    \/ PushBackBegin
    \/ PushBackEnd
    \/ MacroPass
    \/ CollectFuture
    \/ SingleThreadedReturn
    \/ Emit

Spec == Init /\ [][Next]_vars

(***************************************************************************)
(* Properties of main() (Spec)                                             *)
(***************************************************************************)

\* the std::async threads
Workers == { t \in 1..Len(threads) : threads[t].worker }

\* the thread is still inside processBatch
Running(t) == threads[t].pc # "ready"

\* the results of the futures main has taken, merged in launch order
RECURSIVE MergedUpTo(_)
MergedUpTo(k) ==
    IF k = 0 THEN <<>>
    ELSE IF threads[k].taken THEN mergeResults(MergedUpTo(k - 1), threads[k].results)
    ELSE MergedUpTo(k - 1)

\* C2 as stated: in the parallel path no batch is merged into results until
\* every worker has completed.
C2_NoMergeUntilAllComplete ==
    (\E t \in Workers : threads[t].taken) => \A t \in Workers : ~Running(t)

\* C2 amended: in the parallel path the results of a batch are merged only
\* after the future of that batch has completed, in launch order and
\* possibly while workers launched later are still running; results is at
\* every moment the merge of the batches whose futures main has taken.
C2_MergeAfterOwnFuture ==
    (Workers # {} /\ mainPc # "crashed") =>
        /\ \A t \in Workers :
              threads[t].taken =>
                  /\ ~Running(t)
                  /\ \A u \in Workers : u < t => threads[u].taken
        /\ results = MergedUpTo(Len(threads))

\* the first batch is merged while a later worker is still running
C2_Witness ==
    /\ mainPc = "collect"
    /\ \E t \in Workers : threads[t].taken /\ results # <<>>
    /\ \E t \in Workers : Running(t)

\* C3 as stated: no worker appends to the global call graph while another
\* worker is running, the call graph is empty until the workers have
\* completed, and two appends never overlap.
C3_CallGraphOnlyAfterWorkers ==
    /\ \A t \in Workers :
          threads[t].pc = "pushing" => \A u \in Workers \ {t} : ~Running(u)
    /\ (Workers # {} /\ globalCallGraph # <<>>) => \A t \in Workers : ~Running(t)
    /\ Cardinality({ t \in 1..Len(threads) : threads[t].pc = "pushing" }) <= 1

\* the batches that hold a file
NonEmptyBatches == { b \in 1..Len(batches) : batches[b] # <<>> }

\* C16: with N jobs the file at index i (from 0) is placed in batch i mod N,
\* after the files of smaller index, and in no other batch; the batch sizes
\* differ by at most one; a worker is launched only for a batch that is not
\* empty, one for each such batch, in the order of the batches.
C16_RoundRobinBatches ==
    /\ batches # <<>> =>
          /\ Len(batches) = numJobs
          /\ \A b \in 1..numJobs :
                LET idx == { i \in 0..(Len(sourceFiles) - 1) : i % numJobs = b - 1 }
                IN  /\ Len(batches[b]) = Cardinality(idx)
                    /\ \A i \in idx : batches[b][(i \div numJobs) + 1] = sourceFiles[i + 1]
          /\ \A b, c \in 1..numJobs : Len(batches[b]) - Len(batches[c]) <= 1
    /\ \A t \in Workers :
          /\ threads[t].files # <<>>
          /\ \E b \in NonEmptyBatches :
                /\ threads[t].files = batches[b]
                /\ Cardinality({ c \in NonEmptyBatches : c < b }) = t - 1
    /\ (batches # <<>> /\ mainPc \in {"collect", "emit", "done"}) =>
          Cardinality(Workers) = Cardinality(NonEmptyBatches)

\* three jobs and two files: the third batch is empty and only two workers
\* have been launched
C16_Witness ==
    /\ mainPc = "collect"
    /\ numJobs = 3 /\ Len(sourceFiles) = 2
    /\ Len(batches) = 3 /\ batches[3] = <<>>
    /\ Cardinality(Workers) = 2

\* every call of processBatch has returned and main has taken its results
AllBatchesMerged ==
    /\ \A t \in 1..Len(threads) : ~Running(t) /\ threads[t].taken
    /\ (batches # <<>>) => Len(threads) = Cardinality(NonEmptyBatches)
    /\ results = MergedUpTo(Len(threads))

\* a file of the run did not parse
SomeParseFailure ==
    \E i \in 1..Len(sourceFiles) : ~TranslationUnit(sourceFiles[i]).parses

\* C17 as stated: when the parse of a batch reports an exit code that is not
\* 0, all batches are still processed and merged, the axioms extracted are
\* emitted and main returns 0.
C17_ParseFailureReturnsZero ==
    (mainPc = "done" /\ exitCode # 0) =>
        /\ AllBatchesMerged
        /\ output.files = results
        /\ output.total_axioms = TotalAxioms(results)
        /\ output.status = 0

\* C17 amended: an exit code that is not 0 aborts neither the other batches
\* nor the process.  When main comes to write its output all batches have
\* been processed and merged, and exitCode is not 0 exactly when a file did
\* not parse; main returns 0 and emits the axioms extracted whenever it can
\* write the output, and returns 1 without output only when the output file
\* cannot be opened, whatever exitCode is.
C17_ExitCodeDoesNotAbort ==
    /\ mainPc \in {"emit", "done"} =>
          /\ AllBatchesMerged
          /\ (exitCode # 0) <=> SomeParseFailure
    /\ mainPc = "done" =>
          /\ output.status = IF output.written THEN 0 ELSE 1
          /\ output.written =>
                /\ output.files = results
                /\ output.total_axioms = TotalAxioms(results)

\* a parallel run in which one batch reported a parse failure and another
\* none has emitted axioms and returned 0
C17_Witness ==
    /\ mainPc = "done" /\ exitCode # 0
    /\ \E t, u \in Workers : threads[t].exitCode # 0 /\ threads[u].exitCode = 0
    /\ output.status = 0 /\ output.total_axioms > 0

\* the emitted results of a source file
EmittedFor(file) ==
    { k \in 1..Len(output.files) : output.files[k].source_file = file }

\* C18 as stated: after the run every file that failed to parse has, in the
\* emitted results, an ExtractionResult whose errors list is not empty.
C18_FailedFileHasErrors ==
    (mainPc = "done" /\ output.written) =>
        \A i \in 1..Len(sourceFiles) :
           ~TranslationUnit(sourceFiles[i]).parses =>
               \E k \in EmittedFor(sourceFiles[i]) : output.files[k].errors # <<>>

(***************************************************************************)
(* Properties of the hazard pass of FunctionCallback::run (SpecExtract)    *)
(***************************************************************************)

\* the hazards of a type the detector found
HazardsOfType(type) == { k \in 1..Len(hazards) : hazards[k].type = type }

\* the condition of the enclosing if statement is a guard for every hazard
\* of the type
AllGuarded(type) ==
    /\ HazardsOfType(type) # {}
    /\ \A k \in HazardsOfType(type) : isGuardFor(exInput.ifCond, hazards[k])

\* C19 as stated: in FunctionCallback::run only unguarded hazards become
\* PRECONDITION axioms: hazards whose operand a matching guard condition
\* protects yield no precondition axiom, and every precondition axiom has
\* has_guard false.
C19_GuardedHazardYieldsNoAxiom ==
    (exKind = "body" /\ exPc = "done") =>
        /\ \A k \in 1..Len(axioms) :
              axioms[k].axiom_type = "PRECONDITION" => axioms[k].has_guard = "false"
        /\ \A type \in HazardType :
              AllGuarded(type) =>
                  \A k \in 1..Len(axioms) : axioms[k].hazard_type # type

\* an id made of the function's qualified name followed by a suffix
HasSemanticId(ax, qualified_name) ==
    /\ StartsWith(ax.id, qualified_name \o ".")
    /\ Len(ax.id) > Len(qualified_name) + 1

\* C21 as stated: every axiom FunctionCallback::run appends for a hazard
\* (DIVISION, POINTER_DEREF, ARRAY_ACCESS, CAST) or an effect (PARAM_MODIFY,
\* MEMBER_WRITE, MEMORY_ALLOC, MEMORY_FREE, CONTAINER_MODIFY, CALL_FREQUENCY)
\* has a non-empty id made of the function's qualified name followed by a
\* semantic suffix, and non-empty content.
C21_IdAndContentNonEmpty ==
    (exKind \in {"body", "effects"} /\ exPc = "done") =>
        \A k \in 1..Len(axioms) :
           /\ HasSemanticId(axioms[k], exInput.info.qualified_name)
           /\ axioms[k].content # ""

(***************************************************************************)
(* Properties of IgnoreFilter (SpecExtract)                                *)
(***************************************************************************)

\* the path matches one of the patterns, a pattern matching as its glob says
MatchesSome(path, patterns) ==
    \E k \in 1..Len(patterns) : regex_search(path, globToRegex(patterns[k]))

\* the path the loaded filter is asked about, absolute and relative
QueriedPaths == { exInput.path, makeRelative(exInput.path, exInput.projectRoot) }

\* C22: for every path and every set of loaded patterns, shouldIgnore(path)
\* = shouldIgnoreInTestMode(path) OR isTestPath(path): a path matching a
\* regular pattern is ignored in both modes, a path matching only @test:
\* patterns is ignored in normal mode and not ignored in test mode; and
\* shouldIgnorePath answers with the function of its mode.
C22_TestModeBifurcation ==
    (exKind = "ignore" /\ exPc \in {"loaded", "done"}) =>
        /\ \A path \in QueriedPaths :
              /\ shouldIgnore(ignoreFilter, path)
                    <=> (shouldIgnoreInTestMode(ignoreFilter, path)
                         \/ isTestPath(ignoreFilter, path))
              /\ MatchesSome(path, ignoreFilter.patterns_) =>
                    (shouldIgnore(ignoreFilter, path)
                     /\ shouldIgnoreInTestMode(ignoreFilter, path))
              /\ (MatchesSome(path, ignoreFilter.testPatterns_)
                  /\ ~MatchesSome(path, ignoreFilter.patterns_)) =>
                    (shouldIgnore(ignoreFilter, path)
                     /\ ~shouldIgnoreInTestMode(ignoreFilter, path))
        /\ exPc = "done" =>
              LET rel == makeRelative(exInput.path, exInput.projectRoot)
              IN  ignored = IF exInput.testMode
                            THEN shouldIgnoreInTestMode(ignoreFilter, rel)
                            ELSE shouldIgnore(ignoreFilter, rel)

\* a test file under a directory named by a @test: pattern only, asked about
\* in test mode: it is not ignored, and it would be in normal mode
C22_Witness ==
    /\ exKind = "ignore" /\ exPc = "done"
    /\ exInput.testMode /\ exInput.path = "/p/Tests/b.h"
    /\ ignoreFilter.patterns_ = << "build/" >>
    /\ ignoreFilter.testPatterns_ = << "tests/" >>
    /\ ignored = FALSE
    /\ shouldIgnore(ignoreFilter, "Tests/b.h")

(***************************************************************************)
(* Properties of GuardChecker and the two walks (SpecGuard)                *)
(***************************************************************************)

\* under parentheses and implicit casts the condition is a logical negation
IsNegation(cond) ==
    /\ cond # NoExpr
    /\ LET c == IgnoreParenImpCasts(cond)
       IN  c.kind = "UnaryOperator" /\ "opcode" \in DOMAIN c /\ c.opcode = "UO_LNot"

\* no terminator condition of the CFG other than a negation is a guard
OnlyNegationsMatch(cfg, hazard) ==
    \A b \in AllBlocks(cfg) :
       IsNegation(cfg.blocks[b].term) \/ ~isGuardFor(cfg.blocks[b].term, hazard)

\* C23: a branch condition whose top-level operator is a logical negation
\* is never accepted as a guard by isGuardFor, for any hazard type and
\* operand; with no other matching condition in the CFG isGuarded returns
\* false and findGuard returns no expression.
C23_NegationNeverGuards ==
    (gMode \in {"isGuarded", "findGuard"}) =>
        /\ gPc = "input" =>
              \A c \in Conds : \A h \in GuardHazards :
                 IsNegation(c) => ~isGuardFor(c, h)
        /\ IsNegation(gCall.cond) => ~gCall.answer
        /\ (gPc = "done" /\ OnlyNegationsMatch(gCfg, gHazard)) =>
              (~gResult.found /\ gResult.text = "")

\* isGuarded has asked about !p for the dereference *p behind it and has
\* returned false
C23_Witness ==
    /\ gMode = "isGuarded" /\ gPc = "done"
    /\ gHazard.type = "POINTER_DEREF"
    /\ gCfg = NullPred(LNot(PtrToBool("p")))
    /\ gCall.cond = LNot(PtrToBool("p")) /\ ~gCall.answer
    /\ ~gResult.found

\* the blocks reached from a set by following at most n predecessor edges
RECURSIVE PredsWithin(_, _, _)
PredsWithin(cfg, set, n) ==
    IF n = 0 THEN set
    ELSE PredsWithin(cfg, set \cup UNION { PredSet(cfg, b) : b \in set }, n - 1)

\* the blocks at most n predecessor edges away from block b
NearPreds(cfg, b, n) == PredsWithin(cfg, PredSet(cfg, b), n - 1)

\* C24 as stated: if some block reached from the hazard's block by
\* following at most 10 predecessor edges has a terminator condition that is
\* a guard for the hazard, then isGuarded returns true and findGuard returns
\* a guard expression, whatever other blocks and branches the CFG has.
C24_GuardWithinTenEdgesFound ==
    (gMode \in {"isGuarded", "findGuard"} /\ gPc = "done" /\ HazardBlock # 0) =>
        (NearPreds(gCfg, HazardBlock, 10) \cap GuardBlocks(gCfg, gHazard) # {}
            => gResult.found)

(***************************************************************************)
(* Properties of the two macro axiom functions (SpecExtract)               *)
(***************************************************************************)

\* what the claim compares of a list of axioms
IdTypeConfidenceSource(axs) ==
    [ k \in 1..Len(axs) |->
        << axs[k].id, axs[k].axiom_type, axs[k].confidence, axs[k].source_type >> ]

\* C25 as stated: createMacroAxioms of main.cpp, which the pipeline runs, is
\* equivalent to extractMacroAxioms of MacroExtractor.cpp: for every
\* MacroDefinition both return the same list of axioms, with the same ids,
\* types, confidences and source types.
C25_LocalCopyEquivalent ==
    /\ (exKind = "macro" /\ exPc = "created") =>
          IdTypeConfidenceSource(axioms)
             = IdTypeConfidenceSource(extractMacroAxioms(exInput))
    /\ (exKind = "macro" /\ exPc = "extracted") =>
          IdTypeConfidenceSource(axioms)
             = IdTypeConfidenceSource(createMacroAxioms(exInput))

\* C26: for every hazard and every CFG isGuarded and findGuard agree:
\* isGuarded returns true if and only if findGuard returns a guard
\* expression, and both give the negative answer when the CFG is null or no
\* block holds the hazard's line.
C26_WalksAgree ==
    (gMode \in {"isGuarded", "findGuard"} /\ gPc = "done") =>
        /\ gOther # <<>> => (gOther[1].found <=> gResult.found)
        /\ HazardBlock = 0 => ~gResult.found

\* both functions have been called on a CFG with a guard and both found it,
\* findGuard with the text of the condition
C26_Witness ==
    /\ gMode = "findGuard" /\ gPc = "done"
    /\ gOther # <<>> /\ gOther[1].found
    /\ gResult.found /\ gResult.text = "b != 0"
    /\ gCfg = GuardedLoop(NeZero, 2)

(***************************************************************************)
(* Properties of mergeResults (SpecExtract)                                *)
(***************************************************************************)

RECURSIVE Flatten(_)
Flatten(lists) == IF lists = <<>> THEN <<>> ELSE Head(lists) \o Flatten(Tail(lists))

Occurrences(seq, x) == Cardinality({ k \in 1..Len(seq) : seq[k] = x })

\* how often the string x stands in the field of the results for the file
RECURSIVE Held(_, _, _, _)
Held(rs, file, field, x) ==
    IF rs = <<>> THEN 0
    ELSE (IF Head(rs).source_file = file THEN Occurrences(Head(rs)[field], x) ELSE 0)
         + Held(Tail(rs), file, field, x)

StringsOf(rs, field) ==
    UNION { { rs[k][field][i] : i \in 1..Len(rs[k][field]) } : k \in 1..Len(rs) }

RecordsAt(line) == { k \in 1..Len(calls_) : calls_[k].line = line }

\* a default construction with no arguments
DefaultConstruction(node) ==
    node.class = "CXXConstructExpr" /\ node.is_default /\ node.args = <<>>

\* C28 as stated: extractCalls returns exactly one FunctionCall record per
\* call site with a resolvable callee in the body (direct call, member
\* call, user-defined operator call, non-default constructor call): no call
\* site is recorded twice, a default construction with no arguments is
\* recorded zero times.
C28_OneRecordPerCallSite ==
    (exKind = "calls" /\ exPc = "done" /\ exInput.hasBody) =>
        \A i \in 1..Len(exInput.body) :
           LET node == exInput.body[i]
           IN  Cardinality(RecordsAt(node.line))
                  = IF node.decl = "none" \/ DefaultConstruction(node) THEN 0 ELSE 1

(***************************************************************************)
(* Properties of TestAssertExtractor (SpecExtract)                         *)
(***************************************************************************)

\* the assertion macros of the pattern tables that expect no exception
NoThrowMacros ==
    { "ASSERT_NO_THROW", "EXPECT_NO_THROW", "BOOST_REQUIRE_NO_THROW",
      "BOOST_CHECK_NO_THROW", "REQUIRE_NOTHROW", "CHECK_NOTHROW" }

\* those that expect an exception
ThrowMacros ==
    { "REQUIRE_THROWS", "CHECK_THROWS", "ASSERT_THROW", "EXPECT_THROW",
      "BOOST_REQUIRE_THROW", "BOOST_CHECK_THROW" }

\* the axiom_type the pattern tables give the assertion written at the call
TableAxiomType(call) ==
    IF \E m \in NoThrowMacros : Contains(call.sourceText, m) THEN "CONSTRAINT"
    ELSE IF \E m \in ThrowMacros : Contains(call.sourceText, m) THEN "EXCEPTION"
    ELSE "POSTCONDITION"

\* C29 as stated: a no-throw assertion becomes a CONSTRAINT, a throw-expecting
\* assertion an EXCEPTION, every other assertion a POSTCONDITION; toAxioms
\* returns one PATTERN axiom per assertion, in order, with confidence 0.85
\* when the assertion is fatal and 0.80 when it is not.
C29_ClassifiedAsPatternTables ==
    (exKind = "test" /\ exPc = "done") =>
        LET assertions == extractAssertions(exInput)
        IN  /\ Len(axioms) = Len(exInput)
            /\ \A k \in 1..Len(exInput) :
                  /\ assertions[k].axiom_type = TableAxiomType(exInput[k])
                  /\ axioms[k].axiom_type = TableAxiomType(exInput[k])
                  /\ axioms[k].id = "test.T.line" \o to_string(exInput[k].line)
                  /\ axioms[k].source_type = "PATTERN"
                  /\ axioms[k].confidence = IF assertions[k].is_fatal THEN 85 ELSE 80

(***************************************************************************)
(* The emitted document and the schedule of the threads (Spec)             *)
(***************************************************************************)

\* the definitions of the files, in the order tool.run reaches them
RECURSIVE DeclsOf(_)
DeclsOf(files) ==
    IF files = <<>> THEN <<>>
    ELSE TranslationUnit(Head(files)).decls \o DeclsOf(Tail(files))

RECURSIVE AddDecls(_, _)
AddDecls(rs, decls) ==
    IF decls = <<>> THEN rs
    ELSE AddDecls(AddAxiom(rs, Head(decls).file, Head(decls).axiom), Tail(decls))

RECURSIVE CallsOfDecls(_)
CallsOfDecls(decls) ==
    IF decls = <<>> THEN <<>> ELSE Head(decls).calls \o CallsOfDecls(Tail(decls))

\* what processBatch returns for the files
SequentialBatch(files) == AddMacros(AddDecls(<<>>, DeclsOf(files)), BatchMacros(files))

\* the batches of the run: those of the split, or the whole list
RunBatches ==
    IF numJobs > 1 /\ Len(sourceFiles) > 1
    THEN RoundRobin(sourceFiles, numJobs) ELSE << sourceFiles >>

\* the results and the call graph of the run in which every batch runs to
\* its end before the next one starts
RECURSIVE SequentialResults(_)
SequentialResults(k) ==
    IF k = 0 THEN <<>>
    ELSE mergeResults(SequentialResults(k - 1), SequentialBatch(RunBatches[k]))

RECURSIVE SequentialCallGraph(_)
SequentialCallGraph(k) ==
    IF k = 0 THEN <<>>
    ELSE SequentialCallGraph(k - 1) \o CallsOfDecls(DeclsOf(RunBatches[k]))

\* C30 as stated: for a fixed file list and job count the emitted output
\* does not depend on how the worker threads interleave; the per-file
\* results, the axioms inside each result and the records of the call graph
\* come in the order of the run whose batches run one after the other.
C30_OutputIndependentOfInterleaving ==
    (mainPc = "done" /\ output.written) =>
        /\ output.files = SequentialResults(Len(RunBatches))
        /\ ExtractCallGraph =>
              output.call_graph = SequentialCallGraph(Len(RunBatches))

====
